---- MODULE Spec2Model ----
(***************************************************************************)
(* A model of dmitru/distributed-integral: the coordinator (src/src/       *)
(* server.c, the revision of lines 1-433), the worker agent (src/src/      *)
(* worker.c) and the compute engine (src/src/integral.c).                  *)
(*                                                                         *)
(* The C type double is modelled as a binary floating-point number with    *)
(* Precision significant bits, round-to-nearest-even, +-infinity and NaN   *)
(* (IEEE 754 without signed zeros, subnormals or exponent limits), so that *)
(* rounding, division by zero and NaN propagate as they do in the build.   *)
(*                                                                         *)
(* Spec is one coordinator run together with NumWorkers worker processes;  *)
(* time is counted in seconds while accept() blocks during pool assembly.  *)
(* SpecPartition is the partitioning step alone, over pools of up to       *)
(* MaxPartWorkers benchmarks.  SpecIntegrate is one worker reading a       *)
(* Request and computing on it with up to MaxThreads threads.  SpecEngine  *)
(* is integrate step by step: NumCalls invocations at the same time, each  *)
(* creating, running and joining up to MaxEngineThreads threads, the first *)
(* of them the benchmark run of a worker at startup.  SpecCycles is one    *)
(* worker that stays up over coordinator runs started one after another.   *)
(* SpecDiscovery is SpecCycles with up to MaxRecvfromFaults failures of    *)
(* recvfrom() on the worker's discovery socket.  SpecLive is a coordinator *)
(* run with its workers in which no call fails, scheduled fairly.          *)
(* SpecEngineSecond is SpecEngine with the join loop of the second         *)
(* revision of integrate (integral.c, lines 125-187).                      *)
(***************************************************************************)
EXTENDS Integers, Sequences, FiniteSets, TLC

(***************************************************************************)
(* Bounds of the model.                                                    *)
(***************************************************************************)
\* significant bits of the modelled double (the build has 53)
Precision == 4
\* number of worker processes on the network
NumWorkers == 2
\* largest <maximum number of workers> argument tried
MaxPool == 2
\* largest pool the partition specification draws
MaxPartWorkers == 4
\* iterations of one reduction loop the model follows
MaxSteps == 8
\* accept() failures (other than the timeout) in one run
MaxAcceptErrors == 1
\* <waiting time in seconds>, the timeout main gives the listening socket
WaitingTimeSeconds == 1
\* largest <number of threads> of a worker in SpecIntegrate
MaxThreads == 3
\* invocations of integrate that run at the same time in SpecEngine
NumCalls == 2
\* largest n_threads of an invocation in SpecEngine
MaxEngineThreads == 2
\* recvfrom() failures on the discovery socket of a worker in SpecDiscovery
MaxRecvfromFaults == 1

(***************************************************************************)
(* double: arithmetic with rounding.                                       *)
(* A finite value is m * 2^e, kept with m odd (or m = 0, e = 0), so equal  *)
(* values are equal records.                                               *)
(***************************************************************************)
RECURSIVE Pow2(_)
Pow2(n) == IF n <= 0 THEN 1 ELSE 2 * Pow2(n - 1)

Abs(n) == IF n < 0 THEN -n ELSE n

Sign(n) == IF n < 0 THEN -1 ELSE 1

RECURSIVE BitLen(_)
BitLen(n) == IF n <= 0 THEN 0 ELSE 1 + BitLen(n \div 2)

NaN == [k |-> "nan", m |-> 0, e |-> 0]

Inf(s) == [k |-> "inf", m |-> s, e |-> 0]

RECURSIVE Normalize(_, _)
Normalize(m, e) ==
  IF m = 0 THEN [k |-> "num", m |-> 0, e |-> 0]
  ELSE IF m % 2 = 0 THEN Normalize(m \div 2, e + 1)
  ELSE [k |-> "num", m |-> m, e |-> e]

\* the double nearest to s * n * 2^e (n >= 0), ties to even
Round(s, n, e) ==
  LET sh == BitLen(n) - Precision IN
  IF sh <= 0 THEN Normalize(s * n, e)
  ELSE LET q == n \div Pow2(sh)
           r == n % Pow2(sh)
           half == Pow2(sh - 1)
           up == r > half \/ (r = half /\ q % 2 = 1)
       IN Normalize(s * (IF up THEN q + 1 ELSE q), e + sh)

\* conversion of an integer literal or int operand to double
FInt(n) == Round(Sign(n), Abs(n), 0)

IsNaN(a) == a.k = "nan"
IsInf(a) == a.k = "inf"
IsNum(a) == a.k = "num"
IsZero(a) == a.k = "num" /\ a.m = 0

FNeg(a) == IF IsNaN(a) THEN NaN ELSE [a EXCEPT !.m = -a.m]

\* a + b
FAdd(a, b) ==
  IF IsNaN(a) \/ IsNaN(b) THEN NaN
  ELSE IF IsInf(a) /\ IsInf(b) THEN (IF a.m = b.m THEN a ELSE NaN)
  ELSE IF IsInf(a) THEN a
  ELSE IF IsInf(b) THEN b
  ELSE IF a.m = 0 THEN b
  ELSE IF b.m = 0 THEN a
  ELSE IF a.e - b.e > 2 * Precision + 2 THEN a
  ELSE IF b.e - a.e > 2 * Precision + 2 THEN b
  ELSE LET e == IF a.e < b.e THEN a.e ELSE b.e
           n == a.m * Pow2(a.e - e) + b.m * Pow2(b.e - e)
       IN Round(Sign(n), Abs(n), e)

\* a - b
FSub(a, b) == FAdd(a, FNeg(b))

\* a * b
FMul(a, b) ==
  IF IsNaN(a) \/ IsNaN(b) THEN NaN
  ELSE IF IsInf(a) \/ IsInf(b)
    THEN (IF IsZero(a) \/ IsZero(b) THEN NaN ELSE Inf(Sign(a.m) * Sign(b.m)))
  ELSE Round(Sign(a.m) * Sign(b.m), Abs(a.m) * Abs(b.m), a.e + b.e)

\* a / b
FDiv(a, b) ==
  IF IsNaN(a) \/ IsNaN(b) THEN NaN
  ELSE IF IsInf(a) THEN (IF IsInf(b) THEN NaN ELSE Inf(a.m * Sign(b.m)))
  ELSE IF IsInf(b) THEN FInt(0)
  ELSE IF b.m = 0 THEN (IF a.m = 0 THEN NaN ELSE Inf(Sign(a.m)))
  ELSE IF a.m = 0 THEN FInt(0)
  ELSE LET t == 2 * Precision + 2
           n == Abs(a.m) * Pow2(t)
           q == n \div Abs(b.m)
           sticky == IF n % Abs(b.m) = 0 THEN 0 ELSE 1
       IN Round(Sign(a.m) * Sign(b.m), 2 * q + sticky, a.e - b.e - t - 1)

\* a < b, a <= b, a == b, a > b: false when an operand is NaN
FLt(a, b) ==
  IF IsNaN(a) \/ IsNaN(b) THEN FALSE
  ELSE IF IsInf(a) THEN a.m < 0 /\ ~(IsInf(b) /\ b.m < 0)
  ELSE IF IsInf(b) THEN b.m > 0
  ELSE LET d == FSub(a, b) IN d.m < 0

FEq(a, b) == ~IsNaN(a) /\ ~IsNaN(b) /\ a = b

FLe(a, b) == FLt(a, b) \/ FEq(a, b)

FGt(a, b) == FLt(b, a)

(***************************************************************************)
(* Wire protocol (common.h): fixed-size raw structs.                       *)
(***************************************************************************)
SizeofBenchmark == 16
SizeofRequest == 24
SizeofResponse == 16

Benchmark(t, d) == [timeMs |-> t, delta |-> d]
Interval(s, e) == [start |-> s, end |-> e]
Request(s, e, d) == [startPoint |-> s, endPoint |-> e, delta |-> d]
Response(t, r) == [timeElapsed |-> t, result |-> r]

\* a byte count that is neither 0 nor the full size of the struct
ShortCount(size) == size \div 2

(***************************************************************************)
(* Compute engine (integral.c, lines 1-83; worker.c functionToIntegrate).  *)
(***************************************************************************)
functionToIntegrate(x) == FMul(x, x)

\* the for loop of thread_integrate from x with partial sum res; "loops" when
\* the loop condition can never become false (x does not advance, or moves
\* away from b), "fuel" when the model stops following it
\* (when the loop ends, x is the value of x it ended with and left the
\* iterations the model could still have followed)
RECURSIVE IntegrateLoop(_, _, _, _, _)
IntegrateLoop(x, res, b, delta, fuel) ==
  IF ~FLe(FAdd(x, delta), b)
    THEN [kind |-> "ok", val |-> FDiv(res, FInt(2)), x |-> x, left |-> fuel]
  ELSE IF FAdd(x, delta) = x \/ FLt(delta, FInt(0)) THEN [kind |-> "loops", val |-> NaN]
  ELSE IF fuel = 0 THEN [kind |-> "fuel", val |-> NaN]
  ELSE LET y1 == functionToIntegrate(x)
           y2 == functionToIntegrate(FAdd(x, delta))
       IN IntegrateLoop(FAdd(x, delta), FAdd(res, FMul(delta, FAdd(y2, y1))),
                        b, delta, fuel - 1)

\* variant: the sum of the loop is returned without the division by 2
thread_integrateNotHalved(a, b, delta) ==
  LET r == IntegrateLoop(a, FInt(0), b, delta, MaxSteps)
  IN [kind |-> r.kind, val |-> FMul(r.val, FInt(2))]

\* variant: the loop stops one delta short of b
thread_integrateOneShort(a, b, delta) ==
  IntegrateLoop(a, FInt(0), FSub(b, delta), delta, MaxSteps)

thread_integrate(a, b, delta) == IntegrateLoop(a, FInt(0), b, delta, MaxSteps)

\* the task of thread i (0-based) of n_threads
TaskOf(a, b, n_threads, i) ==
  LET d == FDiv(FSub(b, a), FInt(n_threads))
  IN Interval(FAdd(a, FMul(d, FInt(i))), FAdd(a, FMul(d, FInt(i + 1))))

\* the join loop: t_res after joining threads 0..i-1
RECURSIVE JoinSum(_, _, _, _, _)
JoinSum(a, b, n_threads, delta, i) ==
  IF i = 0 THEN [kind |-> "ok", val |-> FInt(0)]
  ELSE LET prev == JoinSum(a, b, n_threads, delta, i - 1)
           t == TaskOf(a, b, n_threads, i - 1)
           ans == thread_integrate(t.start, t.end, delta)
       IN IF prev.kind # "ok" THEN prev
          ELSE IF ans.kind # "ok" THEN ans
          ELSE [kind |-> "ok", val |-> FAdd(prev.val, ans.val)]

\* integrate() when no allocation, spawn or join fails: ret 1 for
\* n_threads < 1, else ret 0 and *res; kind "loops" when a thread never ends
integrate(a, b, n_threads, delta) ==
  IF n_threads < 1 THEN [kind |-> "ok", ret |-> 1, res |-> NaN]
  ELSE LET j == JoinSum(a, b, n_threads, delta, n_threads)
       IN [kind |-> j.kind, ret |-> 0, res |-> j.val]

(***************************************************************************)
(* Partitioning (server.c, lines 284-325).  Sequences are 1-based: worker  *)
(* i of the code is element i + 1.                                         *)
(***************************************************************************)
\* the literal 1e-6, converted to double
PerformanceScale == FDiv(FInt(1), FInt(1000000))

\* variant: an index that falls with the sum of time and delta
performanceIndexOfSum(benchmark) ==
  FDiv(PerformanceScale, FAdd(benchmark.timeMs, benchmark.delta))

performanceIndecex(benchmark) ==
  FDiv(PerformanceScale, FMul(benchmark.timeMs, benchmark.delta))

\* sumOfPerformanceIndeces after the first n iterations of the first loop
RECURSIVE sumOfPerformanceIndeces(_, _)
sumOfPerformanceIndeces(benchmarks, n) ==
  IF n = 0 THEN FInt(0)
  ELSE FAdd(sumOfPerformanceIndeces(benchmarks, n - 1),
            performanceIndecex(benchmarks[n]))

\* workerIntervalLength of iteration i of the second loop
workerIntervalLength(benchmarks, numWorkers, interval, i) ==
  LET intervalLength == FSub(interval.end, interval.start)
  IN FMul(intervalLength,
          FDiv(performanceIndecex(benchmarks[i]),
               sumOfPerformanceIndeces(benchmarks, numWorkers)))

\* lastEnd after the first i iterations of the second loop
RECURSIVE lastEnd(_, _, _, _)
lastEnd(benchmarks, numWorkers, interval, i) ==
  IF i = 0 THEN interval.start
  ELSE FAdd(lastEnd(benchmarks, numWorkers, interval, i - 1),
            workerIntervalLength(benchmarks, numWorkers, interval, i))

computeIntervalsForWorkersWithLoadBalancing(benchmarks, numWorkers, interval) ==
  [i \in 1..numWorkers |->
     LET cursor == lastEnd(benchmarks, numWorkers, interval, i - 1)
     IN Interval(cursor,
                 FAdd(cursor, workerIntervalLength(benchmarks, numWorkers, interval, i)))]

\* variant: the equal split with the loop counter starting at 1
equalSplitFromOne(numWorkers, interval) ==
  LET d == FDiv(FSub(interval.end, interval.start), FInt(numWorkers))
  IN [i \in 1..numWorkers |->
        Interval(FAdd(interval.start, FMul(d, FInt(i))),
                 FAdd(interval.start, FMul(d, FInt(i + 1))))]

\* the else branch of computeIntervalsForWorkers
equalSplit(numWorkers, interval) ==
  LET d == FDiv(FSub(interval.end, interval.start), FInt(numWorkers))
  IN [i \in 1..numWorkers |->
        Interval(FAdd(interval.start, FMul(d, FInt(i - 1))),
                 FAdd(interval.start, FMul(d, FInt(i))))]

computeIntervalsForWorkers(useLoadBalancing, benchmarks, numWorkers, interval) ==
  IF useLoadBalancing
    THEN computeIntervalsForWorkersWithLoadBalancing(benchmarks, numWorkers, interval)
    ELSE equalSplit(numWorkers, interval)

(***************************************************************************)
(* State.                                                                  *)
(***************************************************************************)
Workers == 1..NumWorkers

\* a descriptor value that names no socket of the coordinator process
BadFd == NumWorkers + 1

\* the values an int read before it was ever written can have
Fds == Workers \cup {BadFd}

VARIABLES
  \* coordinator (server.c main and its locals)
  args,             \* Args as given on the command line
  cpc,              \* where main is
  exitMsg,          \* the message of printAndDie / printErrorAndDie, "" if none
  printed,          \* what printf wrote to stdout: <<>> or <<answer>>
  listening,        \* serverSocket is open and listening
  backlog,          \* established connections not yet accepted, oldest first
  numberOfWorkers,
  workerSockets,
  benchmarks,
  workerIntervals,
  idx,              \* the loop variable i of the loop main is in
  answer,
  acceptErrors,     \* accept() failures other than the timeout so far
  waited,           \* seconds the accept() call in progress has been blocked
  sinceStart,       \* seconds since populateWorkerPool was entered, 0 after it
  lastCall,         \* the coordinator's latest socket call and what it returned
  failed,           \* the calls that transferred less than the whole struct so far
  complete,         \* pool indices whose Response was read in full
  \* the connection worker w dialled (its descriptor in the coordinator is w)
  cEnd,             \* coordinator's end: "none", "pending", "open", "closed"
  wOpen,            \* the worker's serverSocket is open
  w2c,              \* bytes sent by the worker and not yet read
  c2w,              \* bytes sent by the coordinator and not yet read
  connected,        \* the workers whose connect() succeeded, earliest first
  \* worker (worker.c main and its locals)
  wpc,
  probe,            \* datagrams waiting on the worker's discovery socket
  numberOfThreads,
  benchmark,
  request,
  response,
  wLeaked,          \* per worker, stream sockets it opened and lost track of
  serverAddress,    \* per worker, main's serverAddress: "sender" or "unset"
  recvfromFaults,   \* per worker, failures of recvfrom() still to come
  \* compute engine (integral.c)
  engine            \* per invocation of integrate, where it is and its threads

coordVars == <<args, cpc, exitMsg, printed, listening, numberOfWorkers,
               workerSockets, benchmarks, workerIntervals, idx, answer,
               acceptErrors, lastCall, failed, complete>>
connVars == <<backlog, cEnd, wOpen, w2c, c2w>>
workerVars == <<wpc, probe, numberOfThreads, benchmark, request, response>>
dialVars == <<connected, wLeaked, serverAddress, recvfromFaults>>
timeVars == <<waited, sinceStart>>
vars == <<coordVars, connVars, workerVars, dialVars, timeVars, engine>>

NoValue == [none |-> TRUE]

\* the invocations of integrate
Calls == 1..NumCalls

\* an invocation that has not been made
NotCalled ==
  [pc |-> "idle", a |-> NaN, b |-> NaN, n_threads |-> 0, delta |-> NaN,
   i |-> 0, threads |-> <<>>, t_res |-> NaN, ret |-> NoValue, res |-> NoValue]

\* call op of loop iteration i on descriptor fd returned n and moved val
Call(op, i, fd, n, val) == [op |-> op, i |-> i, fd |-> fd, n |-> n, val |-> val]

\* failed, after call op that had to move size bytes returned n
noted(op, n, size) == IF n # size THEN failed \cup {op} ELSE failed

\* a struct on the wire: bytes of it that were transferred, and its content
Bytes(n, val) == [bytes |-> n, val |-> val]

(***************************************************************************)
(* Inputs the model draws.                                                 *)
(***************************************************************************)
\* <start point> <end point>
ArgIntervals == {<<0, 4>>, <<4, 0>>}
\* <delta>
ArgDeltas == {1, 0, -1}
\* elapsed milliseconds MEASURE_TIME_MS can yield
BenchTimes == {1, 2}
\* <benchmark delta> of every worker: 1/4
BenchmarkDelta == FDiv(FInt(1), FInt(4))
\* contents an uninitialised Benchmark can have
GarbageBenchmarks == {Benchmark(FInt(0), FInt(0)), Benchmark(FInt(1), FInt(1)),
                      Benchmark(NaN, NaN)}
\* content of a Response that was never written
GarbageResponse == [timeElapsed |-> NaN, result |-> NaN]

ArgsSet ==
  {[interval |-> Interval(FInt(p[1]), FInt(p[2])), delta |-> FInt(d),
    useLoadBalancing |-> lb, maxNumberOfWorkers |-> m] :
     p \in ArgIntervals, d \in ArgDeltas, lb \in BOOLEAN, m \in 1..MaxPool}

Init ==
  /\ args \in ArgsSet
  /\ cpc = "parse"
  /\ exitMsg = ""
  /\ printed = <<>>
  /\ listening = FALSE
  /\ backlog = <<>>
  /\ numberOfWorkers = 0
  /\ workerSockets = <<>>
  /\ benchmarks = <<>>
  /\ workerIntervals = <<>>
  /\ idx = 0
  /\ answer = FInt(0)
  /\ acceptErrors = 0
  /\ lastCall = Call("", 0, BadFd, 0, NoValue)
  /\ failed = {}
  /\ complete = {}
  /\ cEnd = [w \in Workers |-> "none"]
  /\ wOpen = [w \in Workers |-> FALSE]
  /\ w2c = [w \in Workers |-> <<>>]
  /\ c2w = [w \in Workers |-> <<>>]
  /\ wpc = [w \in Workers |-> "start"]
  /\ probe = [w \in Workers |-> 0]
  /\ numberOfThreads = [w \in Workers |-> w]
  /\ benchmark = [w \in Workers |-> NoValue]
  /\ request = [w \in Workers |-> NoValue]
  /\ response = [w \in Workers |-> NoValue]
  /\ connected = <<>>
  /\ wLeaked = [w \in Workers |-> 0]
  /\ serverAddress = [w \in Workers |-> "unset"]
  /\ recvfromFaults = [w \in Workers |-> 0]
  /\ engine = [c \in Calls |-> NotCalled]
  /\ waited = 0
  /\ sinceStart = 0

(***************************************************************************)
(* Coordinator (server.c).                                                 *)
(***************************************************************************)
\* exit(): the process ends and the kernel closes every socket it holds
ExitProcess ==
  /\ listening' = FALSE
  /\ backlog' = <<>>
  /\ cEnd' = [w \in Workers |->
                IF cEnd[w] \in {"pending", "open"} THEN "closed" ELSE cEnd[w]]

\* printAndDie / printErrorAndDie
Die(msg) ==
  /\ cpc' = "died"
  /\ exitMsg' = msg
  /\ ExitProcess

parseArgumentsOrDie ==
  /\ cpc = "parse"
  /\ IF FEq(args.delta, FInt(0))
       THEN Die("Error: <delta> must be a positive real number")
     ELSE IF FGt(args.interval.start, args.interval.end)
       THEN Die("Error: <start point> must be lesser than <end point>")
     ELSE IF args.maxNumberOfWorkers < 1
       THEN Die("Error: <maximum number of workers> must be a positive integer")
     ELSE /\ cpc' = "listen"
          /\ UNCHANGED <<exitMsg, listening, backlog, cEnd>>
  /\ UNCHANGED <<engine, dialVars, timeVars, args, printed, numberOfWorkers,
                 workerSockets, benchmarks, workerIntervals, idx, answer,
                 acceptErrors, lastCall, failed, complete, wOpen, w2c, c2w,
                 workerVars>>

createListeningSocketOrDie ==
  /\ cpc = "listen"
  /\ \/ /\ cpc' = "broadcast"
        /\ listening' = TRUE
        /\ UNCHANGED <<exitMsg, backlog, cEnd>>
     \/ Die("Error when binding the listening socket")
  /\ UNCHANGED <<engine, dialVars, timeVars, args, printed, numberOfWorkers,
                 workerSockets, benchmarks, workerIntervals, idx, answer,
                 acceptErrors, lastCall, failed, complete, wOpen, w2c, c2w,
                 workerVars>>

\* variant: a probe that cannot be sent is not fatal
sendBroadcastOrGoOn ==
  /\ cpc = "broadcast"
  /\ cpc' = "accept"
  /\ \/ /\ probe' = [w \in Workers |->
                       IF wpc[w] \in {"start", "exited"} THEN probe[w]
                       ELSE probe[w] + 1]
        /\ lastCall' = Call("sendto", 0, BadFd, 6, NoValue)
        /\ UNCHANGED failed
     \/ /\ lastCall' = Call("sendto", 0, BadFd, -1, NoValue)
        /\ failed' = failed \cup {"sendto"}
        /\ UNCHANGED probe
  /\ UNCHANGED <<engine, dialVars, timeVars, args, exitMsg, printed, listening,
                 backlog, cEnd, numberOfWorkers, workerSockets, benchmarks,
                 workerIntervals, idx, answer, acceptErrors, complete, wOpen,
                 w2c, c2w, wpc, numberOfThreads, benchmark, request, response>>

\* main, lines 90-91: the datagram reaches every worker whose socket is bound
sendBroadcast ==
  /\ cpc = "broadcast"
  /\ \/ /\ cpc' = "accept"
        /\ probe' = [w \in Workers |->
                       IF wpc[w] \in {"start", "exited"} THEN probe[w]
                       ELSE probe[w] + 1]
        /\ lastCall' = Call("sendto", 0, BadFd, 6, NoValue)
        /\ UNCHANGED failed
        /\ UNCHANGED <<exitMsg, listening, backlog, cEnd>>
     \/ /\ Die("Error: can't send broadcast message")
        /\ lastCall' = Call("sendto", 0, BadFd, -1, NoValue)
        /\ failed' = failed \cup {"sendto"}
        /\ UNCHANGED probe
  /\ UNCHANGED <<engine, dialVars, timeVars, args, printed, numberOfWorkers,
                 workerSockets, benchmarks, workerIntervals, idx, answer,
                 acceptErrors, complete, wOpen, w2c, c2w, wpc,
                 numberOfThreads, benchmark, request, response>>

\* what accept() and the setsockopt() after it can do (acceptWorker):
\* ret is acceptWorker's return value, sock the value written to
\* *workerSocketOut (ret = 0 only), took whether a connection left the backlog
\* accept() returns the oldest waiting connection at once, and fails with
\* EWOULDBLOCK when it has blocked for the timeout of the listening socket
acceptWorker ==
  (IF backlog # <<>>
     THEN {[ret |-> 0, errno |-> "", sock |-> Head(backlog), took |-> TRUE]}
     ELSE IF waited >= WaitingTimeSeconds
       THEN {[ret |-> -1, errno |-> "EWOULDBLOCK", sock |-> BadFd, took |-> FALSE]}
       ELSE {})
  \cup
  (IF acceptErrors < MaxAcceptErrors
     THEN {[ret |-> -1, errno |-> "ECONNABORTED", sock |-> BadFd, took |-> FALSE]}
          \cup (IF backlog # <<>>
                  THEN {[ret |-> -1, errno |-> "ENOPROTOOPT", sock |-> BadFd,
                         took |-> TRUE]}
                  ELSE {})
     ELSE {})

\* the body of the while loop of populateWorkerPool after acceptWorker
\* returned r; garbage is the value of the unwritten local workerSocket
populateAppends(r) == ~(r.ret # 0 /\ r.errno = "EWOULDBLOCK")

\* one iteration of the while loop of populateWorkerPool, and, when the loop
\* ends, main's check of numberOfWorkers (lines 96-98)
populateWorkerPool ==
  /\ cpc = "accept"
  /\ \E r \in acceptWorker, garbage \in Fds :
       LET sock == IF r.ret = 0 THEN r.sock ELSE garbage
           appends == populateAppends(r)
           n == IF appends THEN numberOfWorkers + 1 ELSE numberOfWorkers
           over == ~appends \/ n >= args.maxNumberOfWorkers
           left == IF r.took THEN Tail(backlog) ELSE backlog
           ends == IF r.took
                     THEN [cEnd EXCEPT ![Head(backlog)] = "open"]
                     ELSE cEnd
       IN /\ r.ret = 0 => garbage = BadFd
          /\ lastCall' = Call("accept", numberOfWorkers,
                              IF r.took THEN Head(backlog) ELSE BadFd,
                              r.ret, r.errno)
          /\ failed' = IF r.ret # 0 /\ r.errno # "EWOULDBLOCK"
                         THEN failed \cup {"accept"} ELSE failed
          /\ acceptErrors' = IF r.ret # 0 /\ r.errno # "EWOULDBLOCK"
                               THEN acceptErrors + 1 ELSE acceptErrors
          /\ numberOfWorkers' = n
          /\ workerSockets' = IF appends THEN Append(workerSockets, sock)
                              ELSE workerSockets
          /\ idx' = 0
          /\ waited' = 0
          /\ sinceStart' = IF over THEN 0 ELSE sinceStart
          /\ IF over /\ n < 1
               THEN /\ cpc' = "died"
                    /\ exitMsg' = "Sorry, no workers found. Exiting..."
                    /\ listening' = FALSE
                    /\ backlog' = <<>>
                    /\ cEnd' = [w \in Workers |->
                                  IF ends[w] \in {"pending", "open"}
                                    THEN "closed" ELSE ends[w]]
               ELSE /\ cpc' = IF over THEN "recvBenchmarks" ELSE "accept"
                    /\ backlog' = left
                    /\ cEnd' = ends
                    /\ UNCHANGED <<exitMsg, listening>>
  /\ UNCHANGED <<engine, dialVars, args, printed, benchmarks, workerIntervals,
                 answer, complete, wOpen, w2c, c2w, workerVars>>

\* a second passes while accept() blocks: no connection waits in the backlog
\* and the timeout of the listening socket has not run out
Tick ==
  /\ cpc = "accept"
  /\ backlog = <<>>
  /\ waited < WaitingTimeSeconds
  /\ waited' = waited + 1
  /\ sinceStart' = sinceStart + 1
  /\ UNCHANGED <<coordVars, connVars, workerVars, dialVars, engine>>

\* what recv( socket, buf, size, 0) can return to the coordinator; it blocks
\* (returns nothing yet) while the peer is connected and has sent nothing
recvCounts(fd, size) ==
  IF fd \notin Workers \/ cEnd[fd] # "open" THEN {-1}
  ELSE IF w2c[fd] # <<>> THEN {Head(w2c[fd]).bytes, -1}
  ELSE IF ~wOpen[fd] THEN {0, -1}
  ELSE {-1}

\* the bytes recv() took from the stream
afterRecv(fd, n) ==
  IF n > 0 THEN [w2c EXCEPT ![fd] = Tail(w2c[fd])] ELSE w2c

\* return value of recvBenchmark for recv()'s result recvStatus
recvBenchmark(recvStatus) ==
  IF recvStatus # SizeofBenchmark THEN recvStatus ELSE 0

\* one iteration of the loop of receiveBenchmarksOrDie
receiveBenchmarksOrDie ==
  /\ cpc = "recvBenchmarks"
  /\ idx < numberOfWorkers
  /\ LET fd == workerSockets[idx + 1] IN
     \E recvStatus \in recvCounts(fd, SizeofBenchmark), garbage \in GarbageBenchmarks :
       LET received == recvStatus = SizeofBenchmark
           got == IF received THEN Head(w2c[fd]).val ELSE garbage
       IN /\ received => garbage = Benchmark(NaN, NaN)
          /\ lastCall' = Call("recvBenchmark", idx, fd, recvStatus,
                              IF received THEN got ELSE NoValue)
          /\ failed' = noted("recvBenchmark", recvStatus, SizeofBenchmark)
          /\ w2c' = afterRecv(fd, recvStatus)
          /\ IF recvBenchmark(recvStatus) # 0
               THEN /\ Die("Error: can't receive benchmark from a worker")
                    /\ UNCHANGED <<benchmarks, idx>>
               ELSE /\ benchmarks' = Append(benchmarks, got)
                    /\ idx' = idx + 1
                    /\ cpc' = IF idx + 1 < numberOfWorkers
                                THEN "recvBenchmarks" ELSE "partition"
                    /\ UNCHANGED <<exitMsg, listening, backlog, cEnd>>
  /\ UNCHANGED <<engine, dialVars, timeVars, args, printed, numberOfWorkers,
                 workerSockets, workerIntervals, answer, acceptErrors,
                 complete, wOpen, c2w, workerVars>>

\* main, lines 103-105
partition ==
  /\ cpc = "partition"
  /\ workerIntervals' = computeIntervalsForWorkers(args.useLoadBalancing,
                          benchmarks, numberOfWorkers, args.interval)
  /\ cpc' = "sendRequests"
  /\ idx' = 0
  /\ UNCHANGED <<engine, dialVars, timeVars, args, exitMsg, printed,
                 listening, numberOfWorkers, workerSockets, benchmarks,
                 answer, acceptErrors, lastCall, failed, complete, connVars,
                 workerVars>>

\* what send( socket, buf, size, MSG_NOSIGNAL) can return to the coordinator
sendCounts(fd, size) ==
  IF fd \notin Workers \/ cEnd[fd] # "open" THEN {-1}
  ELSE {size, ShortCount(size), 0, -1}

\* return value of sendRequest for send()'s result sendStatus
sendRequest(sendStatus) ==
  IF sendStatus # SizeofRequest THEN sendStatus ELSE 0

\* variant: the Request of iteration i built from the intervals in reverse
requestOfReversed(i) ==
  Request(workerIntervals[numberOfWorkers - i].start,
          workerIntervals[numberOfWorkers - i].end, args.delta)

\* the Request of iteration i (0-based) of sendRequestsOrDie
requestOf(i) ==
  Request(workerIntervals[i + 1].start, workerIntervals[i + 1].end, args.delta)

\* one iteration of the loop of sendRequestsOrDie
sendRequestsOrDie ==
  /\ cpc = "sendRequests"
  /\ idx < numberOfWorkers
  /\ LET fd == workerSockets[idx + 1] IN
     \E sendStatus \in sendCounts(fd, SizeofRequest) :
       /\ lastCall' = Call("sendRequest", idx, fd, sendStatus, requestOf(idx))
       /\ failed' = noted("sendRequest", sendStatus, SizeofRequest)
       /\ c2w' = IF sendStatus > 0 /\ wOpen[fd]
                   THEN [c2w EXCEPT ![fd] = Append(@, Bytes(sendStatus, requestOf(idx)))]
                   ELSE c2w
       /\ IF sendRequest(sendStatus) # 0
            THEN /\ Die("Error: can't send request to a worker")
                 /\ UNCHANGED idx
            ELSE /\ idx' = IF idx + 1 < numberOfWorkers THEN idx + 1 ELSE 0
                 /\ cpc' = IF idx + 1 < numberOfWorkers THEN "sendRequests" ELSE "gather"
                 /\ UNCHANGED <<exitMsg, listening, backlog, cEnd>>
  /\ UNCHANGED <<engine, dialVars, timeVars, args, printed, numberOfWorkers,
                 workerSockets, benchmarks, workerIntervals, answer,
                 acceptErrors, complete, wOpen, w2c, workerVars>>

\* variant: recvResponse as in the older revision (lines 709-717), which
\* fails on a negative count only
recvResponseSigned(recvStatus) ==
  IF recvStatus < 0 THEN -1 ELSE 0

\* return value of recvResponse for recv()'s result recvStatus
recvResponse(recvStatus) ==
  IF recvStatus # SizeofResponse THEN -1 ELSE 0

\* variant: answer = response.result
accumulateLast(sum, resp) == resp.result

\* answer += response.result
accumulate(sum, resp) == FAdd(sum, resp.result)

\* variant: no close( workerSockets[ i]) after a Response was read
gatherResultsOrDieLeaveOpen ==
  /\ cpc = "gather"
  /\ idx < numberOfWorkers
  /\ LET fd == workerSockets[idx + 1] IN
     \E recvStatus \in recvCounts(fd, SizeofResponse) :
       LET received == recvStatus = SizeofResponse
           \* the local response: what recv() wrote, else never written
           got == IF received THEN Head(w2c[fd]).val ELSE GarbageResponse
       IN
       /\ lastCall' = Call("recvResponse", idx, fd, recvStatus,
                           IF received THEN got ELSE NoValue)
       /\ failed' = noted("recvResponse", recvStatus, SizeofResponse)
       /\ complete' = IF received THEN complete \cup {idx} ELSE complete
       /\ w2c' = afterRecv(fd, recvStatus)
       /\ IF recvResponse(recvStatus) # 0
            THEN /\ Die("Error: can't get response from a worker")
                 /\ UNCHANGED <<answer, idx>>
            ELSE /\ answer' = accumulate(answer, got)
                 /\ cEnd' = cEnd
                 /\ idx' = idx + 1
                 /\ cpc' = IF idx + 1 < numberOfWorkers THEN "gather" ELSE "report"
                 /\ UNCHANGED <<exitMsg, listening, backlog>>
  /\ UNCHANGED <<engine, dialVars, timeVars, args, printed, numberOfWorkers,
                 workerSockets, benchmarks, workerIntervals, acceptErrors,
                 wOpen, c2w, workerVars>>

\* one iteration of the loop of gatherResultsOrDie
gatherResultsOrDie ==
  /\ cpc = "gather"
  /\ idx < numberOfWorkers
  /\ LET fd == workerSockets[idx + 1] IN
     \E recvStatus \in recvCounts(fd, SizeofResponse) :
       LET received == recvStatus = SizeofResponse
           \* the local response: what recv() wrote, else never written
           got == IF received THEN Head(w2c[fd]).val ELSE GarbageResponse
       IN
       /\ lastCall' = Call("recvResponse", idx, fd, recvStatus,
                           IF received THEN got ELSE NoValue)
       /\ failed' = noted("recvResponse", recvStatus, SizeofResponse)
       /\ complete' = IF received THEN complete \cup {idx} ELSE complete
       /\ w2c' = afterRecv(fd, recvStatus)
       /\ IF recvResponse(recvStatus) # 0
            THEN /\ Die("Error: can't get response from a worker")
                 /\ UNCHANGED <<answer, idx>>
            ELSE /\ answer' = accumulate(answer, got)
                 /\ cEnd' = IF fd \in Workers
                              THEN [cEnd EXCEPT ![fd] = "closed"] ELSE cEnd
                 /\ idx' = idx + 1
                 /\ cpc' = IF idx + 1 < numberOfWorkers THEN "gather" ELSE "report"
                 /\ UNCHANGED <<exitMsg, listening, backlog>>
  /\ UNCHANGED <<engine, dialVars, timeVars, args, printed, numberOfWorkers,
                 workerSockets, benchmarks, workerIntervals, acceptErrors,
                 wOpen, c2w, workerVars>>

\* main, lines 112-116: close( serverSocket), printf, return
report ==
  /\ cpc = "report"
  /\ printed' = <<answer>>
  /\ cpc' = "done"
  /\ ExitProcess
  /\ UNCHANGED <<engine, dialVars, timeVars, args, exitMsg, numberOfWorkers,
                 workerSockets, benchmarks, workerIntervals, idx, answer,
                 acceptErrors, lastCall, failed, complete, wOpen, w2c, c2w,
                 workerVars>>

(***************************************************************************)
(* Worker (worker.c).                                                      *)
(***************************************************************************)
\* variant: close( serverSocket) and leave the loop, ending the process
abandonCycleAndExit(w) ==
  /\ wOpen' = [wOpen EXCEPT ![w] = FALSE]
  /\ wpc' = [wpc EXCEPT ![w] = "exited"]

\* variant: the worker runs its benchmark again before the next cycle
abandonCycleAndMeasure(w) ==
  /\ wOpen' = [wOpen EXCEPT ![w] = FALSE]
  /\ wpc' = [wpc EXCEPT ![w] = "start"]

\* close( serverSocket); continue
abandonCycle(w) ==
  /\ wOpen' = [wOpen EXCEPT ![w] = FALSE]
  /\ wpc' = [wpc EXCEPT ![w] = "awaitProbe"]

\* main, lines 74-80: parseArgumentsOrDie, doBenchmark, createWorkerSocketOrDie
workerStartup(w) ==
  /\ wpc[w] = "start"
  /\ integrate(FInt(0), FInt(1), numberOfThreads[w], BenchmarkDelta).kind = "ok"
  /\ \/ \E benchmarkTimeMs \in BenchTimes :
          /\ benchmark' = [benchmark EXCEPT
                             ![w] = Benchmark(FInt(benchmarkTimeMs), BenchmarkDelta)]
          /\ wpc' = [wpc EXCEPT ![w] = "awaitProbe"]
     \/ /\ wpc' = [wpc EXCEPT ![w] = "exited"]
        /\ UNCHANGED benchmark
  /\ UNCHANGED <<coordVars, engine, dialVars, timeVars, connVars, probe,
                 numberOfThreads, request, response>>

\* what recvfrom() on the discovery socket returns: the 1 byte asked for
\* when a datagram waits (the call blocks until then), or -1 when it fails
recvfromCounts(w) ==
  (IF probe[w] > 0 THEN {1} ELSE {}) \cup
  (IF recvfromFaults[w] > 0 THEN {-1} ELSE {})

\* waitForServerAddress, line 176: if ( !error) return false
waitForServerAddressTrue(recvStatus) == recvStatus # 0

\* waitForServerAddress and its helper: serverAddress, declared anew in each
\* iteration of main's loop, is written only when recvfrom() returned > 0
waitForServerAddress(w) ==
  /\ wpc[w] = "awaitProbe"
  /\ \E recvStatus \in recvfromCounts(w) :
       /\ probe' = [probe EXCEPT ![w] = IF recvStatus > 0 THEN @ - 1 ELSE @]
       /\ serverAddress' = [serverAddress EXCEPT
                              ![w] = IF recvStatus > 0 THEN "sender" ELSE "unset"]
       /\ recvfromFaults' = [recvfromFaults EXCEPT
                               ![w] = IF recvStatus < 0 THEN @ - 1 ELSE @]
       /\ wpc' = [wpc EXCEPT ![w] = IF waitForServerAddressTrue(recvStatus)
                                      THEN "connect" ELSE "awaitProbe"]
  /\ UNCHANGED <<coordVars, engine, connected, wLeaked, timeVars, connVars,
                 numberOfThreads, benchmark, request, response>>

\* createServerSocket: connect() reaches the coordinator while it listens;
\* when it fails the helper returns without closing the socket it created
\* (created is false when socket() itself failed)
createServerSocket(w) ==
  /\ wpc[w] = "connect"
  /\ \/ /\ listening
        /\ cEnd[w] = "none"
        /\ cEnd' = [cEnd EXCEPT ![w] = "pending"]
        /\ backlog' = Append(backlog, w)
        /\ wOpen' = [wOpen EXCEPT ![w] = TRUE]
        /\ wpc' = [wpc EXCEPT ![w] = "sendBenchmark"]
        /\ connected' = Append(connected, w)
        /\ UNCHANGED wLeaked
     \/ /\ wpc' = [wpc EXCEPT ![w] = "awaitProbe"]
        /\ \E created \in BOOLEAN :
             wLeaked' = [wLeaked EXCEPT ![w] = IF created THEN @ + 1 ELSE @]
        /\ UNCHANGED <<cEnd, backlog, wOpen, connected>>
  /\ UNCHANGED <<coordVars, engine, timeVars, w2c, c2w, probe, serverAddress,
                 recvfromFaults, numberOfThreads, benchmark, request, response>>

\* what send( serverSocket, buf, size, MSG_NOSIGNAL) can return to a worker
workerSendCounts(size) == {size, ShortCount(size), 0, -1}

\* the bytes a send() that returned n put on the stream to the coordinator
afterSend(w, n, val) ==
  IF n > 0 /\ cEnd[w] \in {"pending", "open"}
    THEN [w2c EXCEPT ![w] = Append(@, Bytes(n, val))]
    ELSE w2c

\* variant: only a send() error counts as a failure
sendBenchmarkHelperUnlessError(sendStatus) == sendStatus # -1

\* sendBenchmarkHelper
sendBenchmarkHelper(sendStatus) == sendStatus = SizeofBenchmark

\* main, lines 92-96
sendBenchmark(w) ==
  /\ wpc[w] = "sendBenchmark"
  /\ \E sendStatus \in workerSendCounts(SizeofBenchmark) :
       /\ w2c' = afterSend(w, sendStatus, benchmark[w])
       /\ IF sendBenchmarkHelper(sendStatus)
            THEN /\ wpc' = [wpc EXCEPT ![w] = "awaitRequest"]
                 /\ UNCHANGED wOpen
            ELSE abandonCycle(w)
  /\ UNCHANGED <<coordVars, engine, dialVars, timeVars, backlog, cEnd, c2w,
                 probe, numberOfThreads, benchmark, request, response>>

\* what recv( serverSocket, buf, size, 0) can return to a worker; it blocks
\* while the coordinator holds the connection and has sent nothing
workerRecvCounts(w) ==
  IF c2w[w] # <<>> THEN {Head(c2w[w]).bytes, -1}
  ELSE IF cEnd[w] = "closed" THEN {0, -1}
  ELSE {-1}

\* variant: any read that returned data counts as a Request
receiveRequestHelperAnyData(recvStatus) == recvStatus > 0

\* receiveRequestHelper
receiveRequestHelper(recvStatus) == recvStatus = SizeofRequest

\* main, lines 98-103
receiveRequest(w) ==
  /\ wpc[w] = "awaitRequest"
  /\ \E recvStatus \in workerRecvCounts(w) :
       /\ c2w' = IF recvStatus > 0 THEN [c2w EXCEPT ![w] = Tail(@)] ELSE c2w
       /\ IF receiveRequestHelper(recvStatus)
            THEN /\ request' = [request EXCEPT ![w] = Head(c2w[w]).val]
                 /\ wpc' = [wpc EXCEPT ![w] = "compute"]
                 /\ UNCHANGED wOpen
            ELSE /\ abandonCycle(w)
                 /\ UNCHANGED request
  /\ UNCHANGED <<coordVars, engine, dialVars, timeVars, backlog, cEnd, w2c,
                 probe, numberOfThreads, benchmark, response>>

\* error codes integrate() returns when malloc, pthread_create or pthread_join fail
IntegrateFailures == {2, 3, 4}

\* elapsed milliseconds computeIntegral measures
ElapsedMs == FInt(1)

\* variant: the worker goes on to sendResponse when integrate failed
computeIntegralSendAnyway(w) ==
  /\ wpc[w] = "compute"
  /\ LET r == integrate(request[w].startPoint, request[w].endPoint,
                        numberOfThreads[w], request[w].delta)
     IN /\ r.kind = "ok"
        /\ \E ret \in {r.ret} \cup IntegrateFailures :
             /\ response' = [response EXCEPT
                               ![w] = IF ret # 0 THEN GarbageResponse
                                      ELSE Response(ElapsedMs, r.res)]
             /\ wpc' = [wpc EXCEPT ![w] = "sendResponse"]
             /\ UNCHANGED wOpen
  /\ UNCHANGED <<coordVars, engine, dialVars, timeVars, backlog, cEnd, w2c,
                 c2w, probe, numberOfThreads, benchmark, request>>

\* main, lines 105-110: computeIntegral
computeIntegral(w) ==
  /\ wpc[w] = "compute"
  /\ LET r == integrate(request[w].startPoint, request[w].endPoint,
                        numberOfThreads[w], request[w].delta)
     IN /\ r.kind = "ok"
        /\ \E ret \in {r.ret} \cup IntegrateFailures :
             IF ret # 0
               THEN /\ abandonCycle(w)
                    /\ UNCHANGED response
               ELSE /\ response' = [response EXCEPT ![w] = Response(ElapsedMs, r.res)]
                    /\ wpc' = [wpc EXCEPT ![w] = "sendResponse"]
                    /\ UNCHANGED wOpen
  /\ UNCHANGED <<coordVars, engine, dialVars, timeVars, backlog, cEnd, w2c,
                 c2w, probe, numberOfThreads, benchmark, request>>

\* sendResponseHelper: -1 (true) when the send was not complete
sendResponseHelper(sentBytesCount) == sentBytesCount # SizeofResponse

\* main, lines 112-118
sendResponse(w) ==
  /\ wpc[w] = "sendResponse"
  /\ \E sentBytesCount \in workerSendCounts(SizeofResponse) :
       /\ w2c' = afterSend(w, sentBytesCount, response[w])
       /\ abandonCycle(w)
  /\ UNCHANGED <<coordVars, engine, dialVars, timeVars, backlog, cEnd, c2w,
                 probe, numberOfThreads, benchmark, request, response>>

(***************************************************************************)
(* The system: one coordinator run and the workers on its network.         *)
(***************************************************************************)
Coordinator ==
  \/ parseArgumentsOrDie
  \/ createListeningSocketOrDie
  \/ sendBroadcast
  \/ populateWorkerPool
  \/ receiveBenchmarksOrDie
  \/ partition
  \/ sendRequestsOrDie
  \/ gatherResultsOrDie
  \/ report

Worker(w) ==
  \/ workerStartup(w)
  \/ waitForServerAddress(w)
  \/ createServerSocket(w)
  \/ sendBenchmark(w)
  \/ receiveRequest(w)
  \/ computeIntegral(w)
  \/ sendResponse(w)

Next == Coordinator \/ (\E w \in Workers : Worker(w)) \/ Tick

Spec == Init /\ [][Next]_vars

(***************************************************************************)
(* The partitioning step on its own: main has collected numberOfWorkers    *)
(* benchmarks (lines 100-101) and computes the sub-intervals.  A Benchmark *)
(* is two raw doubles taken off the wire, so every pair can arrive; pool   *)
(* index i holds descriptor i.                                             *)
(***************************************************************************)
\* elapsed milliseconds of the benchmarks drawn
PartTimes == {0, 1, 3, 6}
PartBenchmarks == {Benchmark(FInt(t), BenchmarkDelta) : t \in PartTimes}
                    \cup {Benchmark(FInt(1), FInt(1))}
\* <start point> <end point>
PartIntervals == {<<0, 8>>, <<0, 1>>, <<1, 4>>}

InitPartition ==
  /\ numberOfWorkers \in 1..MaxPartWorkers
  /\ args \in {[interval |-> Interval(FInt(p[1]), FInt(p[2])), delta |-> FInt(1),
                useLoadBalancing |-> lb, maxNumberOfWorkers |-> numberOfWorkers] :
                 p \in PartIntervals, lb \in BOOLEAN}
  /\ benchmarks \in [1..numberOfWorkers -> PartBenchmarks]
  /\ workerSockets = [i \in 1..numberOfWorkers |-> i]
  /\ cpc = "partition"
  /\ exitMsg = ""
  /\ printed = <<>>
  /\ listening = TRUE
  /\ backlog = <<>>
  /\ workerIntervals = <<>>
  /\ idx = numberOfWorkers
  /\ answer = FInt(0)
  /\ acceptErrors = 0
  /\ lastCall = Call("recvBenchmark", numberOfWorkers - 1, numberOfWorkers,
                     SizeofBenchmark, benchmarks[numberOfWorkers])
  /\ failed = {}
  /\ complete = {}
  /\ cEnd = [w \in Workers |-> "none"]
  /\ wOpen = [w \in Workers |-> FALSE]
  /\ w2c = [w \in Workers |-> <<>>]
  /\ c2w = [w \in Workers |-> <<>>]
  /\ wpc = [w \in Workers |-> "exited"]
  /\ probe = [w \in Workers |-> 0]
  /\ numberOfThreads = [w \in Workers |-> w]
  /\ benchmark = [w \in Workers |-> NoValue]
  /\ request = [w \in Workers |-> NoValue]
  /\ response = [w \in Workers |-> NoValue]
  /\ connected = <<>>
  /\ wLeaked = [w \in Workers |-> 0]
  /\ serverAddress = [w \in Workers |-> "unset"]
  /\ recvfromFaults = [w \in Workers |-> 0]
  /\ engine = [c \in Calls |-> NotCalled]
  /\ waited = 0
  /\ sinceStart = 0

NextPartition == partition

SpecPartition == InitPartition /\ [][NextPartition]_vars

(***************************************************************************)
(* Properties of the partitioning step (SpecPartition).                    *)
(***************************************************************************)
\* the partition has been computed
Partitioned == cpc = "sendRequests"

\* end - start of sub-interval i
Width(i) == FSub(workerIntervals[i].end, workerIntervals[i].start)

\* k / (elapsedMs x delta)
IndexOf(b) == FDiv(PerformanceScale, FMul(b.timeMs, b.delta))

\* the indices of workers 1..n added up in pool order
RECURSIVE IndexSum(_)
IndexSum(n) ==
  IF n = 0 THEN FInt(0) ELSE FAdd(IndexSum(n - 1), IndexOf(benchmarks[n]))

\* overall width x index of worker i / sum of all indices
Share(i) ==
  FMul(FSub(args.interval.end, args.interval.start),
       FDiv(IndexOf(benchmarks[i]), IndexSum(numberOfWorkers)))

\* worker j's benchmark is (2t, d) where worker i's is (t, d)
TwiceAsSlow(i, j) ==
  benchmarks[j] = Benchmark(FMul(FInt(2), benchmarks[i].timeMs), benchmarks[i].delta)

\* C2: for any benchmarks and any numberOfWorkers >= 1 the load-balanced
\* sub-intervals are contiguous and non-overlapping: the first starts at the
\* overall start, each start equals the previous end, and start <= end
C2_LoadBalancedTiling ==
  (Partitioned /\ args.useLoadBalancing) =>
    /\ FEq(workerIntervals[1].start, args.interval.start)
    /\ \A i \in 2..numberOfWorkers :
         FEq(workerIntervals[i].start, workerIntervals[i - 1].end)
    /\ \A i \in 1..numberOfWorkers :
         FLe(workerIntervals[i].start, workerIntervals[i].end)

\* a benchmark with elapsed time 0 has made a sub-interval bound NaN
C2_Witness ==
  /\ Partitioned
  /\ args.useLoadBalancing
  /\ numberOfWorkers = 2
  /\ IsZero(benchmarks[1].timeMs)
  /\ FGt(benchmarks[2].timeMs, FInt(0))
  /\ IsNaN(workerIntervals[1].end)
  /\ IsNaN(workerIntervals[2].start)

\* C3: in load-balanced partitioning the end of the last sub-interval equals
\* the overall end point (stated for benchmarks whose elapsed time is positive)
C3_LastEndIsOverallEnd ==
  (/\ Partitioned
   /\ args.useLoadBalancing
   /\ \A i \in 1..numberOfWorkers : FGt(benchmarks[i].timeMs, FInt(0))) =>
    FEq(workerIntervals[numberOfWorkers].end, args.interval.end)

\* equal positive benchmarks have left the last end below the overall end
C3_Witness ==
  /\ Partitioned
  /\ args.useLoadBalancing
  /\ \A i \in 1..numberOfWorkers : benchmarks[i] = Benchmark(FInt(1), BenchmarkDelta)
  /\ FLt(workerIntervals[numberOfWorkers].end, args.interval.end)

\* C4 as stated: for two workers with benchmarks (t, d) and (2t, d), t > 0,
\* the width of the first sub-interval is exactly twice the width of the second
C4_WidthExactlyTwice ==
  (/\ Partitioned
   /\ args.useLoadBalancing
   /\ numberOfWorkers = 2
   /\ FGt(benchmarks[1].timeMs, FInt(0))
   /\ TwiceAsSlow(1, 2)) =>
    FEq(Width(1), FMul(FInt(2), Width(2)))

\* C4 amended: every load-balanced sub-interval ends at its start plus the
\* rounded product overall width x index / sum of indices, with index
\* k / (elapsedMs x delta); and whenever worker j's benchmark is (2t, d) where
\* worker i's is (t, d), that product for i is exactly twice the one for j,
\* unless both are NaN
C4_ShareExactlyTwice ==
  (Partitioned /\ args.useLoadBalancing) =>
    /\ \A i \in 1..numberOfWorkers :
         workerIntervals[i].end = FAdd(workerIntervals[i].start, Share(i))
    /\ \A i, j \in 1..numberOfWorkers :
         TwiceAsSlow(i, j) =>
           \/ IsNaN(Share(i)) /\ IsNaN(Share(j))
           \/ Share(i) = FMul(FInt(2), Share(j))

\* a pool of two in which the second worker took twice the (positive) time of
\* the first: the computed widths are positive and exactly 2 : 1, the widths
\* end - start of the assigned sub-intervals are not
C4_Witness ==
  /\ Partitioned
  /\ args.useLoadBalancing
  /\ numberOfWorkers = 2
  /\ FGt(benchmarks[1].timeMs, FInt(0))
  /\ TwiceAsSlow(1, 2)
  /\ FGt(Share(2), FInt(0))
  /\ Share(1) = FMul(FInt(2), Share(2))
  /\ ~FEq(Width(1), FMul(FInt(2), Width(2)))

\* C5: with load balancing disabled worker i (0-based) of n is assigned
\* [start + i*d, start + (i+1)*d] with d = (end - start)/n, whatever the
\* benchmarks; n = 4 over [0,8] gives [0,2], [2,4], [4,6], [6,8] in that order
C5_EqualSplit ==
  (Partitioned /\ ~args.useLoadBalancing) =>
    LET n == numberOfWorkers
        d == FDiv(FSub(args.interval.end, args.interval.start), FInt(n))
    IN /\ DOMAIN workerIntervals = 1..n
       /\ \A i \in 0..(n - 1) :
            /\ workerIntervals[i + 1].start = FAdd(args.interval.start, FMul(FInt(i), d))
            /\ workerIntervals[i + 1].end = FAdd(args.interval.start, FMul(FInt(i + 1), d))
       /\ (n = 4 /\ args.interval = Interval(FInt(0), FInt(8))) =>
            workerIntervals = <<Interval(FInt(0), FInt(2)), Interval(FInt(2), FInt(4)),
                                Interval(FInt(4), FInt(6)), Interval(FInt(6), FInt(8))>>

\* four workers with unequal benchmarks have split [0,8] equally
C5_Witness ==
  /\ Partitioned
  /\ ~args.useLoadBalancing
  /\ numberOfWorkers = 4
  /\ args.interval = Interval(FInt(0), FInt(8))
  /\ benchmarks[1] # benchmarks[2]
  /\ workerIntervals[4] = Interval(FInt(6), FInt(8))

(***************************************************************************)
(* Properties of a coordinator run with its workers (Spec).                *)
(***************************************************************************)
\* the Request that carries sub-interval i (1-based) and the overall delta
RequestFor(i) ==
  Request(workerIntervals[i].start, workerIntervals[i].end, args.delta)

\* the results of the workers pooled at 1..n added up in pool order
RECURSIVE TotalOf(_)
TotalOf(n) ==
  IF n = 0 THEN FInt(0)
  ELSE FAdd(TotalOf(n - 1), response[workerSockets[n]].result)

\* C1: when the run completes, the reported total is the sum, in pool order,
\* of one result per pooled worker, each the Compute Engine's result for the
\* worker's own sub-interval and the overall delta; no worker is pooled twice
C1_TotalIsSumOfResults ==
  cpc = "done" =>
    /\ printed = <<answer>>
    /\ Len(workerSockets) = numberOfWorkers
    /\ \A i, j \in 1..numberOfWorkers : i # j => workerSockets[i] # workerSockets[j]
    /\ \A i \in 1..numberOfWorkers :
         LET w == workerSockets[i] IN
         /\ w \in Workers
         /\ request[w] = RequestFor(i)
         /\ response[w].result =
              integrate(workerIntervals[i].start, workerIntervals[i].end,
                        numberOfThreads[w], args.delta).res
    /\ answer = TotalOf(numberOfWorkers)

\* a completed load-balanced run with two pooled workers and a positive total
C1_Witness ==
  /\ cpc = "done"
  /\ numberOfWorkers = 2
  /\ args.useLoadBalancing
  /\ FGt(response[1].result, FInt(0))
  /\ FGt(response[2].result, FInt(0))
  /\ FGt(answer, response[1].result)

\* C6: every benchmark read, request write and response read of pool index i
\* uses the connection pooled at i; the Benchmark read in full at i is the one
\* sub-interval i is computed from, the Request written at i carries
\* sub-interval i, and the Response read in full at i is the one the worker
\* on that connection computed for sub-interval i
C6_PoolOrderConsistent ==
  lastCall.op \in {"recvBenchmark", "sendRequest", "recvResponse"} =>
    LET i == lastCall.i + 1 IN
    /\ i \in 1..numberOfWorkers
    /\ lastCall.fd = workerSockets[i]
    /\ (lastCall.op = "recvBenchmark" /\ lastCall.n = SizeofBenchmark) =>
         /\ benchmarks[i] = lastCall.val
         /\ benchmarks[i] = benchmark[lastCall.fd]
    /\ lastCall.op \in {"sendRequest", "recvResponse"} =>
         /\ Len(benchmarks) = numberOfWorkers
         /\ args.useLoadBalancing =>
              workerIntervals[i].end = FAdd(workerIntervals[i].start, Share(i))
    /\ lastCall.op = "sendRequest" => lastCall.val = RequestFor(i)
    /\ (lastCall.op = "recvResponse" /\ lastCall.n = SizeofResponse) =>
         /\ lastCall.val = response[lastCall.fd]
         /\ request[lastCall.fd] = RequestFor(i)

\* the Response of pool index 1 was read in full in a pool whose order is not
\* the order of the workers' descriptors
C6_Witness ==
  /\ lastCall.op = "recvResponse"
  /\ lastCall.i = 1
  /\ lastCall.n = SizeofResponse
  /\ workerSockets = <<2, 1>>
  /\ args.useLoadBalancing
  /\ benchmarks[1] # benchmarks[2]

\* C7: once a benchmark read has returned a count other than
\* sizeof(Benchmark), no partition is computed and no further socket call
\* is made on behalf of the run
C7_ShortBenchmarkAborts ==
  "recvBenchmark" \in failed =>
    /\ workerIntervals = <<>>
    /\ lastCall.op = "recvBenchmark"

\* a benchmark read returned 0 bytes, and later a Request built from the
\* partition was written in full
C7_Witness ==
  /\ "recvBenchmark" \in failed
  /\ failed = {"recvBenchmark"}
  /\ workerIntervals # <<>>
  /\ lastCall.op = "sendRequest"
  /\ lastCall.n = SizeofRequest

\* C8: once a response read has returned a count other than sizeof(Response)
\* the run has died and printed nothing; a total is printed only after a
\* Response was read in full at every pool index
C8_ShortResponseAborts ==
  /\ "recvResponse" \in failed => cpc = "died" /\ printed = <<>>
  /\ (cpc \in {"report", "done"} \/ printed # <<>>) =>
       complete = 0..(numberOfWorkers - 1)

\* the Response of the first pooled worker was read in full, the read from
\* the second returned 0 bytes, and the run died
C8_Witness ==
  /\ lastCall.op = "recvResponse"
  /\ lastCall.n = 0
  /\ complete = {0}
  /\ numberOfWorkers = 2
  /\ cpc = "died"

\* C9: once a request write has returned a count other than sizeof(Request)
\* the run has died and no response read is made
C9_ShortRequestAborts ==
  "sendRequest" \in failed =>
    /\ cpc = "died"
    /\ lastCall.op = "sendRequest"

\* a request write returned 0 bytes, and later a Response was read in full
C9_Witness ==
  /\ failed = {"sendRequest"}
  /\ lastCall.op = "recvResponse"
  /\ lastCall.n = SizeofResponse

\* C10: an accept that fails for a reason other than the timeout leaves the
\* pool as it was, and assembly goes on
C10_FailedAcceptSkipsCandidate ==
  [][acceptErrors' # acceptErrors =>
       /\ numberOfWorkers' = numberOfWorkers
       /\ workerSockets' = workerSockets
       /\ cpc' = "accept"]_vars

\* an accept failed with an error other than the timeout, and the pool has an
\* entry for it that names no connection
C10_Witness ==
  /\ "accept" \in failed
  /\ numberOfWorkers = 2
  /\ workerSockets[2] = BadFd
  /\ cpc = "recvBenchmarks"

(***************************************************************************)
(* Pool assembly (server.c, populateWorkerPool and main lines 96-98).      *)
(***************************************************************************)
\* no worker has connected back to the coordinator in this run
NoWorkerConnected == \A w \in Workers : cEnd[w] = "none"

NoWorkersFound == "Sorry, no workers found. Exiting..."

\* assembly is over and the pool is not full: the loop of populateWorkerPool
\* was left because an accept timed out
AssemblyTimedOut ==
  /\ cpc \notin {"parse", "listen", "broadcast", "accept"}
  /\ lastCall.op \notin {"", "sendto"}
  /\ numberOfWorkers < args.maxNumberOfWorkers

\* C11: when assembly ended by the accept timeout and no worker had
\* connected, the run has died with the no-workers message: the last call it
\* made is that accept, no benchmark was read, no request sent, no total
\* printed
C11_NoWorkersFound ==
  (NoWorkerConnected /\ AssemblyTimedOut) =>
    /\ cpc = "died"
    /\ exitMsg = NoWorkersFound
    /\ lastCall = Call("accept", 0, BadFd, -1, "EWOULDBLOCK")
    /\ benchmarks = <<>>
    /\ printed = <<>>

\* the first accept timed out with nobody connected and the run died with the
\* no-workers message
C11_Witness ==
  /\ NoWorkerConnected
  /\ cpc = "died"
  /\ exitMsg = NoWorkersFound
  /\ lastCall = Call("accept", 0, BadFd, -1, "EWOULDBLOCK")

\* no worker connected, one accept failed for another reason, the next one
\* timed out, and the coordinator went on to read a benchmark
C11_FailedAcceptWitness ==
  /\ NoWorkerConnected
  /\ AssemblyTimedOut
  /\ "accept" \in failed
  /\ lastCall.op = "recvBenchmark"

\* s can be obtained from t by deleting elements of t
RECURSIVE IsSubsequence(_, _)
IsSubsequence(s, t) ==
  IF s = <<>> THEN TRUE
  ELSE IF t = <<>> THEN FALSE
  ELSE IF Head(s) = Head(t) THEN IsSubsequence(Tail(s), Tail(t))
  ELSE IsSubsequence(s, Tail(t))

\* C12: in every state the pool holds between 0 and <maximum number of
\* workers> entries, and its entries are connections of workers, stored in
\* the order in which the workers connected
C12_PoolInConnectionOrder ==
  /\ numberOfWorkers \in 0..args.maxNumberOfWorkers
  /\ Len(workerSockets) = numberOfWorkers
  /\ IsSubsequence(workerSockets, connected)

\* two workers connected and a failed accept between them left the pool
\* holding the first worker's descriptor twice
C12_Witness ==
  /\ Len(connected) = 2
  /\ workerSockets = <<connected[1], connected[1]>>
  /\ cpc = "recvBenchmarks"

\* C13: a connection is admitted to the pool only within <waiting time in
\* seconds> of the start of assembly, and none after assembly ended
C13_WallClockWindow ==
  [][/\ (numberOfWorkers' > numberOfWorkers /\ lastCall'.n = 0)
          => (cpc = "accept" /\ sinceStart <= WaitingTimeSeconds)
     /\ cpc # "accept" => numberOfWorkers' = numberOfWorkers]_vars

\* assembly began more than <waiting time in seconds> ago, one worker is in
\* the pool, and the connection of a worker that dialled just now waits in
\* the backlog for the accept() call in progress
C13_Witness ==
  /\ cpc = "accept"
  /\ sinceStart > WaitingTimeSeconds
  /\ numberOfWorkers = 1
  /\ Len(connected) = 2
  /\ workerSockets = <<connected[1]>>
  /\ backlog = <<connected[2]>>

(***************************************************************************)
(* The worker's cycle (worker.c, main lines 82-119).                       *)
(***************************************************************************)
\* the moves of a worker between the steps of its cycle
CycleSteps ==
  {<<"start", "awaitProbe">>, <<"start", "exited">>,
   <<"awaitProbe", "connect">>,
   <<"connect", "sendBenchmark">>, <<"connect", "awaitProbe">>,
   <<"sendBenchmark", "awaitRequest">>, <<"sendBenchmark", "awaitProbe">>,
   <<"awaitRequest", "compute">>, <<"awaitRequest", "awaitProbe">>,
   <<"compute", "sendResponse">>, <<"compute", "awaitProbe">>,
   <<"sendResponse", "awaitProbe">>}

\* worker w moves from step a to step b
Moves(w, a, b) == wpc[w] = a /\ wpc'[w] = b

\* worker w puts bytes on its connection
Sends(w) == Len(w2c'[w]) > Len(w2c[w])

\* C14: a worker moves through its cycle in the fixed order; it starts to
\* wait for the Request only after its whole Benchmark went out, computes
\* only after a whole Request came in, sends a Response only after integrate
\* succeeded, and writes to a connection only in the one step that sends the
\* Benchmark and the one step that sends the Response
C14_CycleOrder ==
  [][\A w \in Workers :
       /\ wpc'[w] # wpc[w] => <<wpc[w], wpc'[w]>> \in CycleSteps
       /\ Moves(w, "connect", "sendBenchmark") =>
            (cEnd[w] = "none" /\ cEnd'[w] = "pending" /\ w2c[w] = <<>>)
       /\ Moves(w, "sendBenchmark", "awaitRequest") =>
            w2c' = afterSend(w, SizeofBenchmark, benchmark[w])
       /\ Moves(w, "awaitRequest", "compute") =>
            (c2w[w] # <<>> /\ Head(c2w[w]) = Bytes(SizeofRequest, request'[w]))
       /\ Moves(w, "compute", "sendResponse") =>
            LET r == integrate(request[w].startPoint, request[w].endPoint,
                               numberOfThreads[w], request[w].delta)
            IN r.kind = "ok" /\ r.ret = 0
                 /\ response'[w] = Response(ElapsedMs, r.res)
       /\ Sends(w) =>
            \/ /\ wpc[w] = "sendBenchmark" /\ wpc'[w] # "sendBenchmark"
               /\ w2c'[w][Len(w2c'[w])].val = benchmark[w]
            \/ /\ Moves(w, "sendResponse", "awaitProbe")
               /\ w2c'[w][Len(w2c'[w])].val = response[w]]_vars

\* a worker went through a whole cycle: it is waiting for a probe again and
\* the coordinator has read its Response in full
C14_Witness ==
  \E w \in Workers :
    /\ wpc[w] = "awaitProbe"
    /\ response[w] # NoValue
    /\ cEnd[w] = "closed"
    /\ \E i \in complete : workerSockets[i + 1] = w

\* the steps of the for loop of the worker's main
InCycle ==
  {"awaitProbe", "connect", "sendBenchmark", "awaitRequest", "compute",
   "sendResponse"}

\* the step that follows step a when a succeeds
NextInCycle(a) ==
  CASE a = "awaitProbe" -> "connect"
    [] a = "connect" -> "sendBenchmark"
    [] a = "sendBenchmark" -> "awaitRequest"
    [] a = "awaitRequest" -> "compute"
    [] a = "compute" -> "sendResponse"
    [] a = "sendResponse" -> "awaitProbe"

\* C15: once a worker is in its loop it stays in it: no step ends the
\* process, and a step that fails (it does not lead to the next step of the
\* cycle) leads back to waiting for a probe, with serverSocket closed
C15_WorkerNeverTerminates ==
  [][\A w \in Workers :
       (wpc[w] \in InCycle /\ wpc'[w] # wpc[w]) =>
         /\ wpc'[w] \in InCycle
         /\ wpc'[w] # NextInCycle(wpc[w]) =>
              (wpc'[w] = "awaitProbe" /\ ~wOpen'[w])]_vars

\* a worker connected, gave the cycle up before it had a Request, and waits
\* for a probe again
C15_Witness ==
  \E w \in Workers :
    /\ wpc[w] = "awaitProbe"
    /\ cEnd[w] # "none"
    /\ request[w] = NoValue
    /\ ~wOpen[w]

\* C16: a worker that waits for a probe holds no open stream socket: the
\* serverSocket of its last cycle is closed and no socket it created was
\* left open
C16_NoSocketHeldBetweenCycles ==
  \A w \in Workers :
    wpc[w] = "awaitProbe" => (~wOpen[w] /\ wLeaked[w] = 0)

\* a worker whose connect() failed waits for the next probe and still holds
\* the socket createServerSocketHelper created
C16_Witness ==
  \E w \in Workers :
    /\ wpc[w] = "awaitProbe"
    /\ cEnd[w] = "none"
    /\ wLeaked[w] = 1

\* C17: a worker leaves the wait for its Request in one of two ways: the read
\* took a whole Request off the connection and the worker computes on it, or
\* the worker gives the cycle up with its socket closed, nothing computed and
\* nothing sent
C17_ComputeOnlyAfterWholeRequest ==
  [][\A w \in Workers :
       (wpc[w] = "awaitRequest" /\ wpc'[w] # "awaitRequest") =>
         \/ /\ c2w[w] # <<>>
            /\ Head(c2w[w]).bytes = SizeofRequest
            /\ c2w'[w] = Tail(c2w[w])
            /\ request'[w] = Head(c2w[w]).val
            /\ wpc'[w] = "compute"
         \/ /\ wpc'[w] = "awaitProbe"
            /\ ~wOpen'[w]
            /\ request'[w] = request[w]
            /\ response'[w] = response[w]
            /\ w2c'[w] = w2c[w]]_vars

\* the coordinator's write of a Request to worker w was cut short, w read the
\* part that arrived and gave the cycle up without a Request
C17_Witness ==
  \E w \in Workers :
    /\ lastCall.op = "sendRequest"
    /\ lastCall.fd = w
    /\ lastCall.n = ShortCount(SizeofRequest)
    /\ c2w[w] = <<>>
    /\ wpc[w] = "awaitProbe"
    /\ request[w] = NoValue
    /\ response[w] = NoValue

(***************************************************************************)
(* What is dispatched and computed (server.c parseArgumentsOrDie and       *)
(* sendRequestsOrDie, worker.c computeIntegral, integral.c).               *)
(***************************************************************************)
\* C18: every Request written to a worker has endPoint >= startPoint and
\* delta > 0 and carries the <delta> of the command line; with <delta> <= 0
\* or <start point> > <end point> the run ends in parseArgumentsOrDie,
\* before any socket call
C18_RequestsWellFormed ==
  /\ lastCall.op = "sendRequest" =>
       /\ FLe(lastCall.val.startPoint, lastCall.val.endPoint)
       /\ FGt(lastCall.val.delta, FInt(0))
       /\ lastCall.val.delta = args.delta
  /\ (~FGt(args.delta, FInt(0)) \/ FGt(args.interval.start, args.interval.end))
       => (cpc \in {"parse", "died"} /\ lastCall.op = "")

\* a Request with a negative delta was written to a worker in full
C18_Witness ==
  /\ lastCall.op = "sendRequest"
  /\ lastCall.n = SizeofRequest
  /\ FLt(lastCall.val.delta, FInt(0))
  /\ FLe(lastCall.val.startPoint, lastCall.val.endPoint)

(***************************************************************************)
(* The compute engine on its own: one worker has sent its Benchmark and    *)
(* the Request the coordinator wrote to it is on the connection; the       *)
(* worker reads it and computes.                                           *)
(***************************************************************************)
\* <start point> <end point> of the Request
IntegrateIntervals ==
  {<<0, 4>>, <<0, 1>>, <<1, 4>>, <<0, 3>>, <<2, 2>>, <<16, 32>>}
\* <delta> of the Request: 1, 1/2, 5/8, 2 and -1
IntegrateDeltas ==
  {FInt(1), FDiv(FInt(1), FInt(2)), FDiv(FInt(5), FInt(8)), FInt(2), FInt(-1)}

InitIntegrate ==
  /\ args \in {[interval |-> Interval(FInt(p[1]), FInt(p[2])), delta |-> d,
                useLoadBalancing |-> FALSE, maxNumberOfWorkers |-> 1] :
                 p \in IntegrateIntervals, d \in IntegrateDeltas}
  /\ cpc = "gather"
  /\ exitMsg = ""
  /\ printed = <<>>
  /\ listening = TRUE
  /\ backlog = <<>>
  /\ numberOfWorkers = 1
  /\ workerSockets = <<1>>
  /\ benchmarks = <<Benchmark(FInt(1), BenchmarkDelta)>>
  /\ workerIntervals = equalSplit(1, args.interval)
  /\ idx = 0
  /\ answer = FInt(0)
  /\ acceptErrors = 0
  /\ lastCall = Call("sendRequest", 0, 1, SizeofRequest,
                     Request(args.interval.start, args.interval.end, args.delta))
  /\ failed = {}
  /\ complete = {}
  /\ cEnd = [w \in Workers |-> IF w = 1 THEN "open" ELSE "none"]
  /\ wOpen = [w \in Workers |-> w = 1]
  /\ w2c = [w \in Workers |-> <<>>]
  /\ c2w = [w \in Workers |->
              IF w = 1 THEN <<Bytes(SizeofRequest, lastCall.val)>> ELSE <<>>]
  /\ wpc = [w \in Workers |-> IF w = 1 THEN "awaitRequest" ELSE "exited"]
  /\ probe = [w \in Workers |-> 0]
  /\ numberOfThreads \in [Workers -> 1..MaxThreads]
  /\ \A w \in Workers : w # 1 => numberOfThreads[w] = 1
  /\ benchmark = [w \in Workers |->
                    IF w = 1 THEN Benchmark(FInt(1), BenchmarkDelta) ELSE NoValue]
  /\ request = [w \in Workers |-> NoValue]
  /\ response = [w \in Workers |-> NoValue]
  /\ connected = <<1>>
  /\ wLeaked = [w \in Workers |-> 0]
  /\ serverAddress = [w \in Workers |-> IF w = 1 THEN "sender" ELSE "unset"]
  /\ recvfromFaults = [w \in Workers |-> 0]
  /\ engine = [c \in Calls |-> NotCalled]
  /\ waited = 0
  /\ sinceStart = 0

NextIntegrate == \E w \in Workers : receiveRequest(w) \/ computeIntegral(w)

SpecIntegrate == InitIntegrate /\ [][NextIntegrate]_vars

\* what integrate() does with the Request worker w holds
Computation(w) ==
  integrate(request[w].startPoint, request[w].endPoint, numberOfThreads[w],
            request[w].delta)

\* C19: for the Request a worker computes on, every loop of thread_integrate
\* comes to an end, so computeIntegral returns
C19_ComputeTerminates ==
  \A w \in Workers : wpc[w] = "compute" => Computation(w).kind # "loops"

\* a worker computes on a Request with a positive delta and start <= end, and
\* the loop of one of its threads can never end
C19_Witness ==
  \E w \in Workers :
    /\ wpc[w] = "compute"
    /\ FGt(request[w].delta, FInt(0))
    /\ FLe(request[w].startPoint, request[w].endPoint)
    /\ Computation(w).kind = "loops"

\* the sum of delta * (f(x) + f(x + delta)) over x = x, x + delta, ... while
\* x + delta <= end, added to acc term by term
RECURSIVE TermsFrom(_, _, _, _, _)
TermsFrom(x, end, delta, acc, steps) ==
  IF steps = 0 \/ ~FLe(FAdd(x, delta), end) THEN acc
  ELSE TermsFrom(FAdd(x, delta), end, delta,
                 FAdd(acc, FMul(delta, FAdd(functionToIntegrate(x),
                                            functionToIntegrate(FAdd(x, delta))))),
                 steps - 1)

\* the trapezoid sum of [start, end]: half the sum of the terms
TrapezoidSum(start, end, delta) ==
  FDiv(TermsFrom(start, end, delta, FInt(0), MaxSteps), FInt(2))

\* the trapezoid sums of the sub-intervals 0 .. i-1 of [a, b] cut in n, added
\* in that order; sub-interval i is [a + i*d, a + (i+1)*d], d = (b - a) / n
RECURSIVE SumOfTrapezoids(_, _, _, _, _)
SumOfTrapezoids(a, b, n, delta, i) ==
  IF i = 0 THEN FInt(0)
  ELSE LET d == FDiv(FSub(b, a), FInt(n))
       IN FAdd(SumOfTrapezoids(a, b, n, delta, i - 1),
               TrapezoidSum(FAdd(a, FMul(FInt(i - 1), d)),
                            FAdd(a, FMul(FInt(i), d)), delta))

\* C20: the result a worker is about to send for a Request with delta > 0
\* and startPoint <= endPoint is the sum, over its <number of threads>
\* sub-intervals, of their trapezoid sums
C20_IntegrateIsSumOfTrapezoids ==
  \A w \in Workers :
    (/\ wpc[w] = "sendResponse"
     /\ FGt(request[w].delta, FInt(0))
     /\ FLe(request[w].startPoint, request[w].endPoint))
      => response[w].result =
           SumOfTrapezoids(request[w].startPoint, request[w].endPoint,
                           numberOfThreads[w], request[w].delta,
                           numberOfThreads[w])

\* a worker with three threads has integrated over [0, 3] with delta 1/2 and
\* holds a result that is not zero
C20_Witness ==
  \E w \in Workers :
    /\ wpc[w] = "sendResponse"
    /\ numberOfThreads[w] = 3
    /\ request[w] = Request(FInt(0), FInt(3), FDiv(FInt(1), FInt(2)))
    /\ FGt(response[w].result, FInt(0))

(***************************************************************************)
(* The reduction of one sub-interval (integral.c, thread_integrate).       *)
(***************************************************************************)
\* the sub-intervals the threads of worker w integrate over
TasksOf(w) ==
  {TaskOf(request[w].startPoint, request[w].endPoint, numberOfThreads[w], i) :
     i \in 0..(numberOfThreads[w] - 1)}

\* the reduction of sub-interval t by a thread of worker w
Reduction(w, t) == thread_integrate(t.start, t.end, request[w].delta)

\* the number of trapezoid steps reduction r made
StepsOf(r) == MaxSteps - r.left

\* the largest k in 0..MaxSteps + 1 with start + k*delta <= end
LargestFit(t, delta) ==
  LET fits == {k \in 0..(MaxSteps + 1) :
                 FLe(FAdd(t.start, FMul(FInt(k), delta)), t.end)}
  IN CHOOSE k \in fits : \A j \in fits : j <= k

\* worker w computes on a Request with delta > 0, and t is one of its
\* sub-intervals, whose reduction comes to an end
Reduces(w, t) ==
  /\ wpc[w] = "compute"
  /\ FGt(request[w].delta, FInt(0))
  /\ t \in TasksOf(w)
  /\ FLe(t.start, t.end)
  /\ Reduction(w, t).kind = "ok"

\* C21: a reduction makes as many steps as the largest k with
\* start + k*delta <= end, leaves less than delta of its sub-interval
\* unprocessed, and evaluates f at no point beyond the end of the sub-interval
C21_PartialStepDropped ==
  \A w \in Workers : \A t \in (IF wpc[w] = "compute" THEN TasksOf(w) ELSE {}) :
    Reduces(w, t) =>
      LET r == Reduction(w, t)
      IN /\ StepsOf(r) = LargestFit(t, request[w].delta)
         /\ FLt(FSub(t.end, r.x), request[w].delta)
         /\ FLe(r.x, t.end)

\* x after k iterations of x += delta from start
RECURSIVE RunningSum(_, _, _)
RunningSum(start, delta, k) ==
  IF k = 0 THEN start ELSE FAdd(RunningSum(start, delta, k - 1), delta)

\* the largest k in 0..MaxSteps + 1 for which x, after k iterations of
\* x += delta from start, is <= end
LargestRun(t, delta) ==
  LET fits == {k \in 0..(MaxSteps + 1) : FLe(RunningSum(t.start, delta, k), t.end)}
  IN CHOOSE k \in fits : \A j \in fits : j <= k

\* C21, with the steps counted on the running value of x: a reduction makes
\* as many steps as the largest k for which x, after k additions of delta,
\* is <= end; it ends on that x, leaves less than delta of its sub-interval
\* unprocessed, and evaluates f at no point beyond the end
C21_StepsFollowRunningSum ==
  \A w \in Workers : \A t \in (IF wpc[w] = "compute" THEN TasksOf(w) ELSE {}) :
    Reduces(w, t) =>
      LET r == Reduction(w, t)
      IN /\ StepsOf(r) = LargestRun(t, request[w].delta)
         /\ r.x = RunningSum(t.start, request[w].delta, StepsOf(r))
         /\ FLt(FSub(t.end, r.x), request[w].delta)
         /\ FLe(r.x, t.end)

\* a reduction that makes more steps than the largest k with
\* start + k*delta <= end: the rounding of x += delta let one more fit
C21_Witness ==
  \E w \in Workers : \E t \in (IF wpc[w] = "compute" THEN TasksOf(w) ELSE {}) :
    /\ Reduces(w, t)
    /\ StepsOf(Reduction(w, t)) > LargestFit(t, request[w].delta)

\* what integrate() returns for the Request worker w holds when it runs n
\* threads
ResultWith(w, n) ==
  integrate(request[w].startPoint, request[w].endPoint, n, request[w].delta)

\* C22: the result a worker computed with its <number of threads> n is the
\* result integrate gives for the same Request with 2n threads
C22_ResultSameForTwiceTheThreads ==
  \A w \in Workers :
    (/\ wpc[w] = "sendResponse"
     /\ FGt(request[w].delta, FInt(0))
     /\ FLe(request[w].startPoint, request[w].endPoint)
     /\ ResultWith(w, 2 * numberOfThreads[w]).kind = "ok")
      => ResultWith(w, 2 * numberOfThreads[w]).res = response[w].result

\* one thread integrated x^2 over [0, 3] with delta 2 and got 4 (the step
\* [0, 2]); two threads over [0, 3/2] and [3/2, 3] make no step and give 0
C22_Witness ==
  \E w \in Workers :
    /\ wpc[w] = "sendResponse"
    /\ numberOfThreads[w] = 1
    /\ request[w] = Request(FInt(0), FInt(3), FInt(2))
    /\ response[w].result = FInt(4)
    /\ ResultWith(w, 2).res = FInt(0)

(***************************************************************************)
(* The compute engine step by step (integral.c, lines 17-83): invocations  *)
(* of integrate, each with the threads it creates and joins.  Invocation 1 *)
(* is the benchmark run of worker 1 at startup (worker.c, doBenchmark);    *)
(* the others are made with arguments of their own at the same time.       *)
(***************************************************************************)
\* variant: only a negative n_threads is refused
invalidParallelismNegative(n_threads) == n_threads < 0

\* integrate, line 44: if (n_threads < 1)
invalidParallelism(n_threads) == n_threads < 1

\* variant: every thread works on the Task of the first thread
taskOfFirstThread(e, k) == e.threads[1].task

\* the Task *task thread k (1-based) of invocation e was created with
taskOfThread(e, k) == e.threads[k].task

\* the frame of the engine steps
notEngine == <<coordVars, connVars, workerVars, dialVars, timeVars>>

\* integrate, lines 44-50: the check of n_threads and malloc of the handles
integrateEntry(c) ==
  /\ engine[c].pc = "called"
  /\ IF invalidParallelism(engine[c].n_threads)
       THEN engine' = [engine EXCEPT ![c].pc = "returned", ![c].ret = 1]
       ELSE \/ engine' = [engine EXCEPT ![c].pc = "create", ![c].i = 0]
            \/ engine' = [engine EXCEPT ![c].pc = "returned", ![c].ret = 2]
  /\ UNCHANGED notEngine

\* integrate, lines 52-64: one iteration of the loop that creates the
\* threads, or its end
integrateCreate(c) ==
  LET e == engine[c]
  IN /\ e.pc = "create"
     /\ IF e.i < e.n_threads
          THEN \/ engine' =
                    [engine EXCEPT
                       ![c].threads =
                          Append(@, [st |-> "running",
                                     task |-> TaskOf(e.a, e.b, e.n_threads, e.i),
                                     ans |-> NoValue]),
                       ![c].i = @ + 1]
               \/ engine' = [engine EXCEPT ![c].pc = "returned", ![c].ret = 3]
          ELSE engine' = [engine EXCEPT ![c].pc = "join", ![c].i = 0,
                                        ![c].t_res = FInt(0)]
     /\ UNCHANGED notEngine

\* thread_integrate run by thread k of invocation c: NULL when malloc of the
\* answer fails, else the halved sum of the loop, when the loop ends
threadRun(c, k) ==
  LET e == engine[c]
      t == taskOfThread(e, k)
      r == thread_integrate(t.start, t.end, e.delta)
  IN /\ k <= Len(e.threads)
     /\ e.threads[k].st = "running"
     /\ \/ engine' = [engine EXCEPT ![c].threads[k].st = "done"]
        \/ /\ r.kind = "ok"
           /\ engine' = [engine EXCEPT ![c].threads[k].st = "done",
                                       ![c].threads[k].ans = r.val]
     /\ UNCHANGED notEngine

\* integrate, lines 66-82: one iteration of the loop that joins the threads
\* (pthread_join waits until the thread has returned), or its end
integrateJoin(c) ==
  LET e == engine[c]
      k == e.i + 1
  IN /\ e.pc = "join"
     /\ IF e.i < e.n_threads
          THEN /\ e.threads[k].st = "done"
               /\ \/ engine' = [engine EXCEPT ![c].pc = "returned", ![c].ret = 4]
                  \/ IF e.threads[k].ans = NoValue
                       THEN engine' = [engine EXCEPT ![c].threads[k].st = "joined",
                                                     ![c].pc = "returned",
                                                     ![c].ret = 4]
                       ELSE engine' = [engine EXCEPT
                                         ![c].threads[k].st = "joined",
                                         ![c].t_res = FAdd(@, e.threads[k].ans),
                                         ![c].i = @ + 1]
          ELSE engine' = [engine EXCEPT ![c].pc = "returned", ![c].ret = 0,
                                        ![c].res = e.t_res]
     /\ UNCHANGED notEngine

\* an invocation integrate( f, a, b, n_threads, delta, res) at its entry
Called(a, b, n_threads, delta) ==
  [NotCalled EXCEPT !.pc = "called", !.a = a, !.b = b,
                    !.n_threads = n_threads, !.delta = delta]

\* doBenchmark, lines 293-299: the call of integrate over [0, 1]
doBenchmarkCall(w) ==
  /\ wpc[w] = "start"
  /\ w \in Calls
  /\ engine[w].pc = "idle"
  /\ engine' = [engine EXCEPT
                  ![w] = Called(FInt(0), FInt(1), numberOfThreads[w],
                                BenchmarkDelta)]
  /\ wpc' = [wpc EXCEPT ![w] = "benchmark"]
  /\ UNCHANGED <<coordVars, connVars, dialVars, timeVars, probe,
                 numberOfThreads, benchmark, request, response>>

\* doBenchmark, lines 300-305, after integrate returned (its return value is
\* not looked at), and createWorkerSocketOrDie
doBenchmarkReturn(w) ==
  /\ wpc[w] = "benchmark"
  /\ engine[w].pc = "returned"
  /\ \/ \E benchmarkTimeMs \in BenchTimes :
          /\ benchmark' = [benchmark EXCEPT
                             ![w] = Benchmark(FInt(benchmarkTimeMs), BenchmarkDelta)]
          /\ wpc' = [wpc EXCEPT ![w] = "awaitProbe"]
     \/ /\ wpc' = [wpc EXCEPT ![w] = "exited"]
        /\ UNCHANGED benchmark
  /\ UNCHANGED <<coordVars, connVars, dialVars, timeVars, engine, probe,
                 numberOfThreads, request, response>>

\* a, b of the invocations made beside the benchmark run
EngineIntervals == {<<0, 4>>, <<0, 3>>}
\* their delta
EngineDeltas == {FInt(1), FInt(2)}

InitEngine ==
  /\ args \in {a \in ArgsSet : a.interval = Interval(FInt(0), FInt(4))
                                /\ a.delta = FInt(1) /\ ~a.useLoadBalancing
                                /\ a.maxNumberOfWorkers = 1}
  /\ cpc = "parse"
  /\ exitMsg = ""
  /\ printed = <<>>
  /\ listening = FALSE
  /\ backlog = <<>>
  /\ numberOfWorkers = 0
  /\ workerSockets = <<>>
  /\ benchmarks = <<>>
  /\ workerIntervals = <<>>
  /\ idx = 0
  /\ answer = FInt(0)
  /\ acceptErrors = 0
  /\ lastCall = Call("", 0, BadFd, 0, NoValue)
  /\ failed = {}
  /\ complete = {}
  /\ cEnd = [w \in Workers |-> "none"]
  /\ wOpen = [w \in Workers |-> FALSE]
  /\ w2c = [w \in Workers |-> <<>>]
  /\ c2w = [w \in Workers |-> <<>>]
  /\ wpc = [w \in Workers |-> IF w = 1 THEN "start" ELSE "exited"]
  /\ probe = [w \in Workers |-> 0]
  /\ numberOfThreads \in [Workers -> 1..MaxEngineThreads]
  /\ \A w \in Workers : w # 1 => numberOfThreads[w] = 1
  /\ benchmark = [w \in Workers |-> NoValue]
  /\ request = [w \in Workers |-> NoValue]
  /\ response = [w \in Workers |-> NoValue]
  /\ connected = <<>>
  /\ wLeaked = [w \in Workers |-> 0]
  /\ serverAddress = [w \in Workers |-> "unset"]
  /\ recvfromFaults = [w \in Workers |-> 0]
  /\ waited = 0
  /\ sinceStart = 0
  /\ engine \in [Calls -> {NotCalled} \cup
                   {Called(FInt(p[1]), FInt(p[2]), n, d) :
                      p \in EngineIntervals, n \in 0..MaxEngineThreads,
                      d \in EngineDeltas}]
  /\ \A c \in Calls : engine[c].pc = "idle" <=> c = 1

NextEngine ==
  \/ \E w \in Workers : doBenchmarkCall(w) \/ doBenchmarkReturn(w)
  \/ \E c \in Calls :
       \/ integrateEntry(c)
       \/ integrateCreate(c)
       \/ integrateJoin(c)
       \/ \E k \in 1..MaxEngineThreads : threadRun(c, k)

SpecEngine == InitEngine /\ [][NextEngine]_vars


\* C23: an invocation of integrate with n_threads < 1, once past its entry,
\* has returned 1, has created no thread and has not written *res
C23_InvalidParallelismRefused ==
  \A c \in Calls :
    (engine[c].pc \notin {"idle", "called"} /\ engine[c].n_threads < 1)
      => /\ engine[c].pc = "returned"
         /\ engine[c].ret = 1
         /\ engine[c].threads = <<>>
         /\ engine[c].res = NoValue

\* an invocation with n_threads = 0 has returned while another invocation
\* has threads running
C23_Witness ==
  \E c \in Calls :
    /\ engine[c].pc = "returned"
    /\ engine[c].n_threads = 0
    /\ engine[c].ret = 1
    /\ \E d \in Calls : \E k \in 1..Len(engine[d].threads) :
         engine[d].threads[k].st = "running"


\* worker w has left startup holding a Benchmark to send on every probe
ReadyToAdvertise(w) == wpc[w] = "awaitProbe" /\ benchmark[w] # NoValue

\* C24: a worker that left startup with a Benchmark to advertise got 0 from
\* the integrate call of its benchmark run
C24_FailedBenchmarkNotAdvertised ==
  \A w \in Workers :
    (w \in Calls /\ ReadyToAdvertise(w)) => engine[w].ret = 0

\* the benchmark run of a worker returned 3 or 4 and the worker holds the
\* Benchmark measured over it
C24_Witness ==
  \E w \in Workers :
    /\ w \in Calls
    /\ ReadyToAdvertise(w)
    /\ engine[w].ret \in {3, 4}
    /\ engine[w].res = NoValue


\* the message of a run that ends because the probe could not be sent
BroadcastFailure == "Error: can't send broadcast message"

\* a probe datagram arrives at some worker in this step
ProbeArrives == \E w \in Workers : probe'[w] > probe[w]

\* the steps of main in the order of the code
MainOrder ==
  <<"parse", "listen", "broadcast", "accept", "recvBenchmarks", "partition",
    "sendRequests", "gather", "report", "done">>

\* the position of a step of main (0 for a run that died)
MainRank(pc) ==
  IF \E k \in 1..Len(MainOrder) : MainOrder[k] = pc
    THEN CHOOSE k \in 1..Len(MainOrder) : MainOrder[k] = pc
    ELSE 0

\* C25: the probe is sent from the broadcast step only, which is entered only
\* from createListeningSocketOrDie with the socket listening and is never
\* entered again; one step sends it, at most one datagram reaches a worker;
\* and a failed sendto ends the run with the broadcast message, the pool empty
\* and no connection taken from the backlog
C25_ListenThenOneProbe ==
  [][/\ (ProbeArrives \/ (lastCall'.op = "sendto" /\ lastCall.op # "sendto"))
          => /\ cpc = "broadcast"
             /\ listening
             /\ cpc' # "broadcast"
             /\ \A w \in Workers : probe'[w] <= probe[w] + 1
     /\ (cpc' = "broadcast" /\ cpc # "broadcast")
          => (cpc = "listen" /\ listening')
     /\ (cpc' # cpc /\ cpc' # "died") => MainRank(cpc') > MainRank(cpc)
     /\ cpc = "died" => cpc' = "died"
     /\ (cpc = "broadcast" /\ cpc' # "broadcast" /\ lastCall'.n < 0)
          => /\ cpc' = "died"
             /\ exitMsg' = BroadcastFailure
             /\ numberOfWorkers' = 0
             /\ workerSockets' = <<>>
             /\ backlog = <<>>
             /\ NoWorkerConnected'
             /\ ~ProbeArrives]_vars

\* the run ended on the broadcast message while a worker was waiting for the
\* probe
C25_Witness ==
  /\ cpc = "died"
  /\ exitMsg = BroadcastFailure
  /\ lastCall.op = "sendto"
  /\ \E w \in Workers : wpc[w] = "awaitProbe"


\* a double that is finite and > 0
PositiveFinite(x) == IsNum(x) /\ x.m > 0

\* C27: after load-balanced partitioning every performance index computed
\* from the benchmarks read is finite and > 0, and so is their sum
C27_IndicesPositiveFinite ==
  (Partitioned /\ args.useLoadBalancing) =>
    /\ \A i \in 1..numberOfWorkers :
         PositiveFinite(performanceIndecex(benchmarks[i]))
    /\ PositiveFinite(sumOfPerformanceIndeces(benchmarks, numberOfWorkers))

\* a Benchmark with timeMs = 0 was partitioned over: its index is +infinity
\* and so is the sum
C27_Witness ==
  /\ Partitioned
  /\ args.useLoadBalancing
  /\ numberOfWorkers = 2
  /\ IsZero(benchmarks[1].timeMs)
  /\ FGt(benchmarks[2].timeMs, FInt(0))
  /\ performanceIndecex(benchmarks[1]) = Inf(1)
  /\ sumOfPerformanceIndeces(benchmarks, numberOfWorkers) = Inf(1)
  /\ IsNaN(workerIntervals[1].end)


\* sendRequest has been called in this run
RequestWritten == lastCall.op \in {"sendRequest", "recvResponse"}

\* recvResponse has been called in this run
ResponseAwaited == lastCall.op = "recvResponse"

\* a Request of this run has arrived at worker w
RequestArrived(w) == c2w[w] # <<>> \/ request[w] # NoValue

\* every pool index has been through recvBenchmark and every such read
\* returned a whole Benchmark
BenchmarkReadFromAll ==
  Len(benchmarks) = numberOfWorkers /\ "recvBenchmark" \notin failed

\* C26: no Request is written, and none arrives at a worker, before a
\* Benchmark was read from every pooled worker; no Response is awaited before
\* a Request was written in full at every pool index
C26_PhaseBarriers ==
  /\ RequestWritten => BenchmarkReadFromAll
  /\ (\E w \in Workers : RequestArrived(w)) => BenchmarkReadFromAll
  /\ ResponseAwaited =>
       /\ "sendRequest" \notin failed
       /\ Len(workerIntervals) = numberOfWorkers
       /\ cpc \in {"gather", "report", "done", "died"}

\* the phases as loops: no Request is written before every pool index has
\* been through recvBenchmark, and no Response is awaited before every pool
\* index has been through sendRequest, without the run dying
C26_BarriersOverPoolIndices ==
  /\ RequestWritten => Len(benchmarks) = numberOfWorkers
  /\ (\E w \in Workers : RequestArrived(w)) => Len(benchmarks) = numberOfWorkers
  /\ ResponseAwaited =>
       /\ Len(workerIntervals) = numberOfWorkers
       /\ cpc \in {"gather", "report", "done", "died"}

\* a pooled worker closed without sending its Benchmark, the read from it
\* returned 0 bytes, and a Request arrived at the other worker
C26_Witness ==
  /\ numberOfWorkers = 2
  /\ failed = {"recvBenchmark"}
  /\ \E w \in Workers :
       /\ RequestArrived(w)
       /\ \E v \in Workers \ {w} :
            /\ \E i \in 1..Len(workerSockets) : workerSockets[i] = v
            /\ ~wOpen[v]
            /\ ~RequestArrived(v)


\* every thread invocation c has created has been joined
AllJoined(c) ==
  \A k \in 1..Len(engine[c].threads) : engine[c].threads[k].st = "joined"

\* C28: an invocation that wrote its sum has created n_threads threads, and
\* one that returned 0, 3 or 4 has joined every thread it created
C28_AllJoinedOnReturn ==
  \A c \in Calls :
    /\ engine[c].res # NoValue =>
         (Len(engine[c].threads) = engine[c].n_threads /\ AllJoined(c))
    /\ (engine[c].pc = "returned" /\ engine[c].ret \in {0, 3, 4}) => AllJoined(c)
    /\ (engine[c].pc = "returned" /\ engine[c].ret = 0) =>
         Len(engine[c].threads) = engine[c].n_threads

\* integrate returned 3 after pthread_create failed for the second thread
\* while the first is still running
C28_Witness ==
  \E c \in Calls :
    /\ engine[c].pc = "returned"
    /\ engine[c].ret = 3
    /\ engine[c].n_threads = 2
    /\ Len(engine[c].threads) = 1
    /\ engine[c].threads[1].st = "running"


\* the answer of thread k (1-based) of invocation e, computed alone over the
\* k-th sub-interval
OwnAnswer(e, k) ==
  LET t == TaskOf(e.a, e.b, e.n_threads, k - 1)
  IN thread_integrate(t.start, t.end, e.delta)

\* C29: whatever the order of the steps of the threads of all invocations,
\* the answer a thread leaves is the one computed from its own sub-interval,
\* the running sum of the join loop holds the answers joined so far, and the
\* value written to *res is what integrate computes from the arguments alone
C29_ResultIndependentOfInterleaving ==
  \A c \in Calls :
    LET e == engine[c]
    IN /\ \A k \in 1..Len(e.threads) :
            e.threads[k].ans # NoValue =>
              /\ OwnAnswer(e, k).kind = "ok"
              /\ e.threads[k].ans = OwnAnswer(e, k).val
       /\ e.pc = "join" =>
            e.t_res = JoinSum(e.a, e.b, e.n_threads, e.delta, e.i).val
       /\ e.res # NoValue =>
            /\ e.ret = 0
            /\ integrate(e.a, e.b, e.n_threads, e.delta).kind = "ok"
            /\ e.res = integrate(e.a, e.b, e.n_threads, e.delta).res

\* an invocation with two threads has written its sum while another
\* invocation, started before it returned, has one thread finished and one
\* still running
C29_Witness ==
  \E c \in Calls : \E d \in Calls \ {c} :
    /\ engine[c].pc = "returned"
    /\ engine[c].ret = 0
    /\ engine[c].n_threads = 2
    /\ engine[c].res # NoValue
    /\ engine[d].n_threads = 2
    /\ Len(engine[d].threads) = 2
    /\ engine[d].threads[1].st = "running"
    /\ engine[d].threads[2].st = "done"
    /\ engine[d].threads[2].ans # NoValue


(***************************************************************************)
(* Several coordinator runs, one after the other, on the network of a      *)
(* worker that stays up: each run is a new process of server.c, started    *)
(* when the run before it has ended and the worker holds no connection.    *)
(***************************************************************************)
InitCycles ==
  /\ args \in {a \in ArgsSet : a.interval = Interval(FInt(0), FInt(4))
                                /\ a.delta = FInt(1)
                                /\ a.maxNumberOfWorkers = 1}
  /\ cpc = "parse"
  /\ exitMsg = ""
  /\ printed = <<>>
  /\ listening = FALSE
  /\ backlog = <<>>
  /\ numberOfWorkers = 0
  /\ workerSockets = <<>>
  /\ benchmarks = <<>>
  /\ workerIntervals = <<>>
  /\ idx = 0
  /\ answer = FInt(0)
  /\ acceptErrors = 0
  /\ lastCall = Call("", 0, BadFd, 0, NoValue)
  /\ failed = {}
  /\ complete = {}
  /\ cEnd = [w \in Workers |-> "none"]
  /\ wOpen = [w \in Workers |-> FALSE]
  /\ w2c = [w \in Workers |-> <<>>]
  /\ c2w = [w \in Workers |-> <<>>]
  /\ wpc = [w \in Workers |-> IF w = 1 THEN "start" ELSE "exited"]
  /\ probe = [w \in Workers |-> 0]
  /\ numberOfThreads = [w \in Workers |-> 1]
  /\ benchmark = [w \in Workers |-> NoValue]
  /\ request = [w \in Workers |-> NoValue]
  /\ response = [w \in Workers |-> NoValue]
  /\ connected = <<>>
  /\ wLeaked = [w \in Workers |-> 0]
  /\ serverAddress = [w \in Workers |-> "unset"]
  /\ recvfromFaults = [w \in Workers |-> 0]
  /\ engine = [c \in Calls |-> NotCalled]
  /\ waited = 0
  /\ sinceStart = 0

\* the coordinator is started again with the same arguments: a new process
\* at the beginning of main, while the workers go on as they are
nextRun ==
  /\ cpc \in {"done", "died"}
  /\ \A w \in Workers : ~wOpen[w] /\ probe[w] = 0 /\ wLeaked[w] = 0
  /\ cpc' = "parse"
  /\ exitMsg' = ""
  /\ printed' = <<>>
  /\ listening' = FALSE
  /\ backlog' = <<>>
  /\ numberOfWorkers' = 0
  /\ workerSockets' = <<>>
  /\ benchmarks' = <<>>
  /\ workerIntervals' = <<>>
  /\ idx' = 0
  /\ answer' = FInt(0)
  /\ acceptErrors' = 0
  /\ lastCall' = Call("", 0, BadFd, 0, NoValue)
  /\ failed' = {}
  /\ complete' = {}
  /\ cEnd' = [w \in Workers |-> "none"]
  /\ w2c' = [w \in Workers |-> <<>>]
  /\ c2w' = [w \in Workers |-> <<>>]
  /\ connected' = <<>>
  /\ waited' = 0
  /\ sinceStart' = 0
  /\ UNCHANGED <<args, wOpen, workerVars, wLeaked, serverAddress,
                 recvfromFaults, engine>>

NextCycles == Next \/ nextRun

SpecCycles == InitCycles /\ [][NextCycles]_vars


\* worker w has been through doBenchmark
Measured(w) == benchmark[w] # NoValue

\* the message a send of worker w put on the stream in this step
Sent(w) == w2c'[w][Len(w2c'[w])]

\* C30: the Benchmark of a worker is set in the startup step only, with the
\* delta of its arguments, is held whenever the worker is in its loop, never
\* changes afterwards, and is what every sendBenchmark puts on the stream
C30_BenchmarkMeasuredOnce ==
  [][\A w \in Workers :
       /\ Measured(w) => benchmark'[w] = benchmark[w]
       /\ benchmark'[w] # benchmark[w] =>
            /\ wpc[w] = "start"
            /\ wpc'[w] = "awaitProbe"
            /\ benchmark'[w].delta = BenchmarkDelta
       /\ wpc'[w] \notin {"start", "exited"} => Measured(w)'
       /\ (wpc[w] = "sendBenchmark" /\ Len(w2c'[w]) > Len(w2c[w]))
            => Sent(w).val = benchmark[w]]_vars

\* a worker that answered a Request in an earlier cycle has sent its
\* Benchmark again, to the coordinator of a later run, and waits for the
\* Request
C30_Witness ==
  \E w \in Workers :
    /\ response[w] # NoValue
    /\ wpc[w] = "awaitRequest"
    /\ wOpen[w]
    /\ w2c[w] # <<>>
    /\ w2c[w][Len(w2c[w])] = Bytes(SizeofBenchmark, benchmark[w])


\* the message of a run that ends because a Response could not be read
GatherFailed == "Error: can't get response from a worker"

\* computeIntegral of worker w returns false in this step
ComputeFails(w) ==
  wpc[w] = "compute" /\ wpc'[w] \notin {"compute", "sendResponse"}

\* worker w took a Request and left the cycle without a Response: nothing
\* of it is on the stream and its end of the connection is closed
LeftWithoutResponse(w) ==
  /\ cEnd[w] = "open"
  /\ ~wOpen[w]
  /\ w2c[w] = <<>>

\* C31: when computeIntegral fails the worker puts nothing on the stream,
\* closes its socket and waits for a probe again; it goes on to sendResponse
\* only with the result of an integrate that returned 0; and when the
\* coordinator reads the Response of a worker that left that way, the run
\* dies with the gather message and prints no total
C31_ComputeFailureAbandonsCycle ==
  [][/\ \A w \in Workers :
          ComputeFails(w) =>
            /\ wpc'[w] = "awaitProbe"
            /\ ~wOpen'[w]
            /\ w2c' = w2c
            /\ response' = response
     /\ \A w \in Workers :
          (wpc[w] = "compute" /\ wpc'[w] = "sendResponse") =>
            LET r == integrate(request[w].startPoint, request[w].endPoint,
                               numberOfThreads[w], request[w].delta)
            IN r.ret = 0 /\ response'[w] = Response(ElapsedMs, r.res)
     /\ (/\ cpc = "gather"
         /\ (cpc' # cpc \/ idx' # idx)
         /\ workerSockets[idx + 1] \in Workers
         /\ LeftWithoutResponse(workerSockets[idx + 1]))
          => /\ cpc' = "died"
             /\ exitMsg' = GatherFailed
             /\ printed' = <<>>]_vars

\* a pooled worker read its Request, never produced a Response and waits for
\* a probe again, and the run died on the read of that worker's Response
C31_Witness ==
  /\ cpc = "died"
  /\ exitMsg = GatherFailed
  /\ printed = <<>>
  /\ lastCall.op = "recvResponse"
  /\ lastCall.fd \in Workers
  /\ LET w == lastCall.fd
     IN /\ request[w] # NoValue
        /\ response[w] = NoValue
        /\ wpc[w] = "awaitProbe"
        /\ ~wOpen[w]


\* the pool entries are connections of distinct workers
PoolSound ==
  /\ \A i \in 1..Len(workerSockets) : workerSockets[i] \in Workers
  /\ \A i, j \in 1..Len(workerSockets) :
       workerSockets[i] = workerSockets[j] => i = j

\* the coordinator calls recv or send on the pool entry at idx in this step
PoolCall ==
  /\ cpc \in {"recvBenchmarks", "sendRequests", "gather"}
  /\ (cpc' # cpc \/ idx' # idx)

\* a Response was read in full in this step
ResponseRead == cpc = "gather" /\ cpc' \in {"gather", "report"} /\ idx' # idx

\* the total is printed in this step
Emits == printed = <<>> /\ printed' # <<>>

\* C32: the step that reads a Response closes that connection, open until
\* then, and no other; a closed connection stays closed; the total is printed
\* by the step that leaves the listening socket closed, after every pooled
\* connection of a pool of distinct connections was closed in its own gather
\* step; and no recv or send is called on a connection already closed
C32_ClosedOnceAfterResponse ==
  [][/\ ResponseRead =>
          LET fd == workerSockets[idx + 1]
          IN /\ fd \in Workers
             /\ cEnd[fd] = "open"
             /\ cEnd'[fd] = "closed"
             /\ \A v \in Workers \ {fd} : cEnd'[v] = cEnd[v]
     /\ \A w \in Workers : cEnd[w] = "closed" => cEnd'[w] = "closed"
     /\ Emits =>
          /\ cpc = "report"
          /\ listening
          /\ ~listening'
          /\ PoolSound
          /\ Len(workerSockets) = numberOfWorkers
          /\ \A i \in 1..Len(workerSockets) : cEnd[workerSockets[i]] = "closed"
     /\ (PoolCall /\ workerSockets[idx + 1] \in Workers)
          => cEnd[workerSockets[idx + 1]] # "closed"]_vars

\* a total over two pooled workers was printed: both connections and the
\* listening socket are closed
C32_Witness ==
  /\ printed # <<>>
  /\ numberOfWorkers = 2
  /\ PoolSound
  /\ ~listening
  /\ \A w \in Workers : cEnd[w] = "closed"
  /\ complete = {0, 1}


(***************************************************************************)
(* Discovery under failures of recvfrom(): one coordinator run and a       *)
(* worker whose discovery socket fails up to MaxRecvfromFaults times.      *)
(***************************************************************************)
InitDiscovery ==
  /\ args \in {a \in ArgsSet : a.interval = Interval(FInt(0), FInt(4))
                                /\ a.delta = FInt(1)
                                /\ a.maxNumberOfWorkers = 1}
  /\ cpc = "parse"
  /\ exitMsg = ""
  /\ printed = <<>>
  /\ listening = FALSE
  /\ backlog = <<>>
  /\ numberOfWorkers = 0
  /\ workerSockets = <<>>
  /\ benchmarks = <<>>
  /\ workerIntervals = <<>>
  /\ idx = 0
  /\ answer = FInt(0)
  /\ acceptErrors = 0
  /\ lastCall = Call("", 0, BadFd, 0, NoValue)
  /\ failed = {}
  /\ complete = {}
  /\ cEnd = [w \in Workers |-> "none"]
  /\ wOpen = [w \in Workers |-> FALSE]
  /\ w2c = [w \in Workers |-> <<>>]
  /\ c2w = [w \in Workers |-> <<>>]
  /\ wpc = [w \in Workers |-> IF w = 1 THEN "start" ELSE "exited"]
  /\ probe = [w \in Workers |-> 0]
  /\ numberOfThreads = [w \in Workers |-> 1]
  /\ benchmark = [w \in Workers |-> NoValue]
  /\ request = [w \in Workers |-> NoValue]
  /\ response = [w \in Workers |-> NoValue]
  /\ connected = <<>>
  /\ wLeaked = [w \in Workers |-> 0]
  /\ serverAddress = [w \in Workers |-> "unset"]
  /\ recvfromFaults = [w \in Workers |-> IF w = 1 THEN MaxRecvfromFaults ELSE 0]
  /\ engine = [c \in Calls |-> NotCalled]
  /\ waited = 0
  /\ sinceStart = 0

NextDiscovery == Next

SpecDiscovery == InitDiscovery /\ [][NextDiscovery]_vars

\* worker w is about to create a socket and connect() it to serverAddress
Dials(w) == wpc[w] = "connect"

\* C33: a worker that is about to dial holds the sender of a probe in
\* serverAddress, and the step that took it there received a datagram
C33_DialsOnlyAfterProbe ==
  [][\A w \in Workers :
       /\ Dials(w)' => serverAddress'[w] = "sender"
       /\ (~Dials(w) /\ Dials(w)') => probe'[w] = probe[w] - 1]_vars

\* recvfrom() failed and the worker is about to dial with serverAddress
\* never written, no probe having reached it
C33_Witness ==
  \E w \in Workers :
    /\ Dials(w)
    /\ serverAddress[w] = "unset"
    /\ recvfromFaults[w] < MaxRecvfromFaults
    /\ cpc \in {"parse", "listen", "broadcast"}


(***************************************************************************)
(* Progress: one coordinator run and the workers when nothing fails.  No   *)
(* socket call returns an error or a short count, no recv() times out, no  *)
(* allocation or thread call of integrate fails; each process is scheduled *)
(* fairly.  accept() still times out when no connection waits, which is    *)
(* how pool assembly ends with fewer workers than the maximum.             *)
(***************************************************************************)
InitLive ==
  /\ args \in {a \in ArgsSet : a.interval = Interval(FInt(0), FInt(4))
                                /\ ~IsZero(a.delta)
                                /\ ~a.useLoadBalancing}
  /\ cpc = "parse"
  /\ exitMsg = ""
  /\ printed = <<>>
  /\ listening = FALSE
  /\ backlog = <<>>
  /\ numberOfWorkers = 0
  /\ workerSockets = <<>>
  /\ benchmarks = <<>>
  /\ workerIntervals = <<>>
  /\ idx = 0
  /\ answer = FInt(0)
  /\ acceptErrors = 0
  /\ lastCall = Call("", 0, BadFd, 0, NoValue)
  /\ failed = {}
  /\ complete = {}
  /\ cEnd = [w \in Workers |-> "none"]
  /\ wOpen = [w \in Workers |-> FALSE]
  /\ w2c = [w \in Workers |-> <<>>]
  /\ c2w = [w \in Workers |-> <<>>]
  /\ wpc = [w \in Workers |-> "start"]
  /\ probe = [w \in Workers |-> 0]
  /\ numberOfThreads = [w \in Workers |-> 1]
  /\ benchmark = [w \in Workers |-> NoValue]
  /\ request = [w \in Workers |-> NoValue]
  /\ response = [w \in Workers |-> NoValue]
  /\ connected = <<>>
  /\ wLeaked = [w \in Workers |-> 0]
  /\ serverAddress = [w \in Workers |-> "unset"]
  /\ recvfromFaults = [w \in Workers |-> 0]
  /\ engine = [c \in Calls |-> NotCalled]
  /\ waited = 0
  /\ sinceStart = 0

\* the struct the coordinator transfers in the loop main is in
StructSize ==
  CASE cpc = "recvBenchmarks" -> SizeofBenchmark
    [] cpc = "sendRequests" -> SizeofRequest
    [] cpc = "gather" -> SizeofResponse
    [] OTHER -> 0

\* the coordinator's step, if this is one, met no failure: it dies only for
\* want of workers, accept() fails only by its timeout, and recv and send
\* transfer the whole struct
CoordinatorSound ==
  /\ cpc' = "died" => (cpc = "accept" /\ exitMsg' = NoWorkersFound)
  /\ acceptErrors' = acceptErrors
  /\ PoolCall => lastCall'.n = StructSize

\* a step of worker w, if this is one, met no failure: the worker goes on to
\* the next step of its cycle with whole structs sent, or gives the cycle up
\* because the coordinator is no longer there
WorkerSound(w) ==
  wpc'[w] # wpc[w] =>
    /\ wpc'[w] # "exited"
    /\ wpc[w] = "sendBenchmark" =>
         w2c' = afterSend(w, SizeofBenchmark, benchmark[w])
    /\ wpc[w] = "sendResponse" =>
         w2c' = afterSend(w, SizeofResponse, response[w])
    /\ wpc[w] \in InCycle =>
         \/ wpc'[w] = NextInCycle(wpc[w])
         \/ wpc[w] = "connect" /\ ~(listening /\ cEnd[w] = "none")
         \/ wpc[w] \in {"sendBenchmark", "awaitRequest"} /\ cEnd[w] = "closed"

NoFailure == CoordinatorSound /\ \A w \in Workers : WorkerSound(w)

LiveCoordinator == Coordinator /\ NoFailure

LiveWorker(w) == Worker(w) /\ NoFailure

NextLive == LiveCoordinator \/ (\E w \in Workers : LiveWorker(w)) \/ Tick

SpecLive ==
  /\ InitLive
  /\ [][NextLive]_vars
  /\ WF_vars(LiveCoordinator)
  /\ WF_vars(Tick)
  /\ \A w \in Workers : WF_vars(LiveWorker(w))


\* the pool is assembled with at least one worker in it and the run has
\* neither printed its total nor died
Underway ==
  /\ cpc \in {"recvBenchmarks", "partition", "sendRequests", "gather", "report"}
  /\ numberOfWorkers >= 1

\* the call main is in can return without a failure: recv() has a whole struct
\* to read; every other step of main returns by itself
CoordinatorCanStep ==
  CASE cpc \in {"done", "died"} -> FALSE
    [] cpc \in {"recvBenchmarks", "gather"} ->
         LET fd == workerSockets[idx + 1]
         IN /\ fd \in Workers
            /\ w2c[fd] # <<>>
    [] OTHER -> TRUE

\* the call worker w is in can return without a failure: recvfrom() has a
\* datagram, recv() has bytes or the coordinator has closed, the loops of
\* thread_integrate end; every other step returns by itself
WorkerCanStep(w) ==
  CASE wpc[w] = "exited" -> FALSE
    [] wpc[w] = "awaitProbe" -> probe[w] > 0
    [] wpc[w] = "awaitRequest" -> c2w[w] # <<>> \/ cEnd[w] = "closed"
    [] wpc[w] = "compute" -> Computation(w).kind = "ok"
    [] OTHER -> TRUE

\* a step is taken only by a process that can step
StepsOnlyWhenAble ==
  [][/\ (cpc' # cpc \/ idx' # idx \/ numberOfWorkers' # numberOfWorkers)
          => CoordinatorCanStep
     /\ \A w \in Workers : wpc'[w] # wpc[w] => WorkerCanStep(w)]_vars

\* C34: when nothing fails, a run that has pooled at least one worker never
\* comes to a stop before its end: while it is underway the coordinator or a
\* worker can take a step, so that under fair scheduling the total is
\* printed and the pooled workers come back to waiting for a probe
C34_PooledRunNeverStalls ==
  Underway => (CoordinatorCanStep \/ \E w \in Workers : WorkerCanStep(w))

\* the same for runs whose <delta> is positive
C34_PositiveDeltaRunNeverStalls ==
  (Underway /\ FGt(args.delta, FInt(0))) =>
    (CoordinatorCanStep \/ \E w \in Workers : WorkerCanStep(w))

\* the coordinator waits for the Response of a pooled worker whose
\* thread_integrate loop never ends, and no worker can take a step
C34_Witness ==
  /\ cpc = "gather"
  /\ workerSockets[idx + 1] \in Workers
  /\ LET w == workerSockets[idx + 1]
     IN /\ wpc[w] = "compute"
        /\ wOpen[w]
        /\ w2c[w] = <<>>
        /\ Computation(w).kind = "loops"
        /\ FLt(request[w].delta, FInt(0))
  /\ \A v \in Workers : ~WorkerCanStep(v)


(***************************************************************************)
(* The second revision of integrate in the same file (integral.c, lines    *)
(* 125-187).  Its entry, its creation loop and thread_integrate act on the *)
(* invocation as those of the first revision do; its join loop leaves by   *)
(* break and writes *res before it looks at is_ok.                         *)
(***************************************************************************)
\* integrate, lines 165-186: one iteration of the loop that joins the
\* threads, or its end; after a failed join or a NULL answer the loop is
\* left, *res = t_res is executed and 4 is returned
integrateJoinSecond(c) ==
  LET e == engine[c]
      k == e.i + 1
  IN /\ e.pc = "join"
     /\ IF e.i < e.n_threads
          THEN /\ e.threads[k].st = "done"
               /\ \/ engine' = [engine EXCEPT ![c].pc = "returned", ![c].ret = 4,
                                              ![c].res = e.t_res]
                  \/ IF e.threads[k].ans = NoValue
                       THEN engine' = [engine EXCEPT ![c].threads[k].st = "joined",
                                                     ![c].pc = "returned",
                                                     ![c].ret = 4,
                                                     ![c].res = e.t_res]
                       ELSE engine' = [engine EXCEPT
                                         ![c].threads[k].st = "joined",
                                         ![c].t_res = FAdd(@, e.threads[k].ans),
                                         ![c].i = @ + 1]
          ELSE engine' = [engine EXCEPT ![c].pc = "returned", ![c].ret = 0,
                                        ![c].res = e.t_res]
     /\ UNCHANGED notEngine

NextEngineSecond ==
  \/ \E w \in Workers : doBenchmarkCall(w) \/ doBenchmarkReturn(w)
  \/ \E c \in Calls :
       \/ integrateEntry(c)
       \/ integrateCreate(c)
       \/ integrateJoinSecond(c)
       \/ \E k \in 1..MaxEngineThreads : threadRun(c, k)

SpecEngineSecond == InitEngine /\ [][NextEngineSecond]_vars

\* C35: an invocation of integrate that has returned a non-zero code (1 for
\* n_threads < 1, 2 for the handles' malloc, 3 for pthread_create, 4 for
\* pthread_join or a NULL answer) has not written *res: no partial sum of
\* the answers it collected is stored
C35_ErrorLeavesResultUnwritten ==
  \A c \in Calls :
    (engine[c].pc = "returned" /\ engine[c].ret # 0)
      => engine[c].res = NoValue

\* an invocation with two threads has joined the first, failed on the
\* second and returned 4
C35_Witness ==
  \E c \in Calls :
    /\ engine[c].pc = "returned"
    /\ engine[c].ret = 4
    /\ engine[c].n_threads = 2
    /\ engine[c].threads[1].st = "joined"
    /\ engine[c].threads[1].ans # NoValue
    /\ engine[c].threads[2].st # "joined"

====
